---- MODULE Spec2Model ----
(***************************************************************************)
(* AxolotlSD: the AXSD song decoder (song::load) and the mixing player     *)
(* (player::play / pause / tick / handle_one / maybe_echo_one) of           *)
(* src/src/axolotlsd.cpp and src/include/axolotlsd.hpp.                     *)
(*                                                                         *)
(* Spec is a host that loads song files and drives one player; SpecLoad    *)
(* is a host that hands damaged buffers to the decoder; SpecSong is a host *)
(* that encodes a score, loads it, plays it once and ticks frame by frame; *)
(* SpecNoteOff applies the note_off case of handle_one to players with     *)
(* given voices; SpecMix applies accumulate_into to the voices of one      *)
(* channel; SpecEcho ticks a silent song under echo configurations.        *)
(*                                                                         *)
(* Numbers.  TLC's integers are 32-bit signed, so                          *)
(*   - a U32 is a record [hi, lo] of two 16-bit halves, with the wrapping  *)
(*     arithmetic of the C++ type;                                         *)
(*   - an F32 is a record [k, v]: k = "fin" with v the value in units of   *)
(*     1/FScale, k = "inf" with v = 1 or -1, k = "nan".  Results are       *)
(*     rounded to the nearest unit and overflow to infinity above FMax,   *)
(*     as IEEE-754 arithmetic does at its own resolution and range.        *)
(*     Signed zeros are not distinguished.                                 *)
(*                                                                         *)
(* Exceptions and undefined behaviour.  A call returns a record whose      *)
(* status is "ok", the exception thrown, or "undefined"; what an undefined *)
(* operation may yield is an argument (ub, junk) the caller chooses.       *)
(*                                                                         *)
(* Intermediate values are bound as parameters of local operators, one     *)
(* per statement of the code, in the order the code computes them.         *)
(***************************************************************************)
EXTENDS Integers, Sequences, FiniteSets, TLC

----------------------------------------------------------------------------
(* Unsigned integers                                                       *)

Pow16 == 65536

\* U32 of two 16-bit halves
U32Of(h, l) == [hi |-> h, lo |-> l]

\* a non-negative Int below 2^31 as a U32
U32FromInt(n) == [hi |-> n \div Pow16, lo |-> n % Pow16]

U32Zero == U32Of(0, 0)

\* 0xFFFFFFFF, the "not looping" value of patch_t::loop_start
NoLoop == U32Of(65535, 65535)

\* the value fits TLC's integers
U32IsSmall(u) == u.hi < 32768

\* the Int of a small U32
U32ToInt(u) == u.hi * Pow16 + u.lo

U32Lt(a, b) == a.hi < b.hi \/ (a.hi = b.hi /\ a.lo < b.lo)

U32Le(a, b) == a = b \/ U32Lt(a, b)

\* a + b modulo 2^32
U32Add(a, b) ==
  LET l == a.lo + b.lo
      h == a.hi + b.hi + (l \div Pow16)
  IN  [hi |-> h % Pow16, lo |-> l % Pow16]

\* a - b modulo 2^32
U32Sub(a, b) ==
  LET l == a.lo - b.lo
      borrow == IF l < 0 THEN 1 ELSE 0
      h == a.hi - b.hi - borrow
  IN  [hi |-> h % Pow16, lo |-> l % Pow16]

Half32 == U32Of(32768, 0)

\* a % m for m # 0, on the unsigned 32-bit values
U32Mod(a, m) ==
  IF U32Lt(a, m) THEN a
  ELSE IF ~U32IsSmall(m) THEN U32Sub(a, m)
  ELSE IF U32IsSmall(a) THEN U32FromInt(U32ToInt(a) % U32ToInt(m))
  ELSE LET mi == U32ToInt(m)
           x  == U32ToInt(U32Sub(a, Half32)) % mi
           y  == ((2147483647 % mi) + 1) % mi
           s  == U32Add(U32FromInt(x), U32FromInt(y))
       IN  IF U32Le(m, s) THEN U32Sub(s, m) ELSE s

\* little-endian bytes to U32: (b0 << 0) | (b1 << 8) | (b2 << 16) | (b3 << 24)
U32FromBytes(b0, b1, b2, b3) == [hi |-> b2 + 256 * b3, lo |-> b0 + 256 * b1]

\* the four little-endian bytes of a U32
U32ToBytes(u) == <<u.lo % 256, u.lo \div 256, u.hi % 256, u.hi \div 256>>

----------------------------------------------------------------------------
(* F32                                                                     *)

\* units per 1.0
FScale == 4400

\* largest finite magnitude, in units
FMax == 268435456

Fin(v) == [k |-> "fin", v |-> v]
NaN == [k |-> "nan", v |-> 0]
PInf == [k |-> "inf", v |-> 1]
NInf == [k |-> "inf", v |-> -1]
Inf(s) == IF s < 0 THEN NInf ELSE PInf

FZero == Fin(0)
FOne == Fin(FScale)

\* an integer-valued float
FInt(n) == Fin(n * FScale)

IsNaN(a) == a.k = "nan"
IsInf(a) == a.k = "inf"
IsFin(a) == a.k = "fin"

Abs(n) == IF n < 0 THEN -n ELSE n
Sign(n) == IF n < 0 THEN -1 ELSE IF n > 0 THEN 1 ELSE 0

\* n / d rounded to nearest, n >= 0, d > 0
RoundDiv(n, d) == (n \div d) + (IF 2 * (n % d) >= d THEN 1 ELSE 0)

\* a finite result, or infinity when out of range
FSat(v) == IF Abs(v) > FMax THEN Inf(v) ELSE Fin(v)

FNeg(a) == IF IsNaN(a) THEN NaN ELSE [k |-> a.k, v |-> -a.v]

FAdd(a, b) ==
  IF IsNaN(a) \/ IsNaN(b) THEN NaN
  ELSE IF IsInf(a) /\ IsInf(b) THEN (IF a.v = b.v THEN a ELSE NaN)
  ELSE IF IsInf(a) THEN a
  ELSE IF IsInf(b) THEN b
  ELSE FSat(a.v + b.v)

FSub(a, b) == FAdd(a, FNeg(b))

\* |a| * |b| / FScale in units, for finite operands; -1 when out of range
MulUnits(x, y) ==
  LET qa == x \div FScale
      ra == x % FScale
      qb == y \div FScale
      rb == y % FScale
  IN  IF qa > 0 /\ qb > (FMax \div FScale) \div qa THEN -1
      ELSE qa * qb * FScale + qa * rb + ra * qb + RoundDiv(ra * rb, FScale)

FMul(a, b) ==
  IF IsNaN(a) \/ IsNaN(b) THEN NaN
  ELSE IF IsInf(a) \/ IsInf(b)
       THEN (IF Sign(a.v) * Sign(b.v) = 0 THEN NaN ELSE Inf(Sign(a.v) * Sign(b.v)))
  ELSE LET m == MulUnits(Abs(a.v), Abs(b.v))
           s == Sign(a.v) * Sign(b.v)
       IN  IF m < 0 THEN Inf(s) ELSE FSat(s * m)

\* |a| * FScale / |b| in units, for finite operands, b # 0; -1 when out of range
DivUnits(x, y) ==
  IF y % FScale = 0 THEN RoundDiv(x, y \div FScale)
  ELSE LET q == x \div y
           r == x % y
       IN  IF q > FMax \div FScale \/ r > FMax \div FScale THEN -1
           ELSE q * FScale + RoundDiv(r * FScale, y)

FDiv(a, b) ==
  IF IsNaN(a) \/ IsNaN(b) THEN NaN
  ELSE IF IsInf(a) THEN (IF IsInf(b) THEN NaN
                         ELSE Inf(a.v * (IF b.v < 0 THEN -1 ELSE 1)))
  ELSE IF IsInf(b) THEN FZero
  ELSE IF b.v = 0 THEN (IF a.v = 0 THEN NaN ELSE Inf(a.v))
  ELSE LET d == DivUnits(Abs(a.v), Abs(b.v))
           s == Sign(a.v) * Sign(b.v)
       IN  IF d < 0 THEN Inf(s) ELSE FSat(s * d)

\* a < b; every comparison with a NaN is false
FLt(a, b) ==
  IF IsNaN(a) \/ IsNaN(b) THEN FALSE
  ELSE IF IsInf(a) THEN a.v < 0 /\ ~(IsInf(b) /\ b.v < 0)
  ELSE IF IsInf(b) THEN b.v > 0
  ELSE a.v < b.v

FGt(a, b) == FLt(b, a)

\* std::floor
FFloor(a) == IF IsFin(a) THEN Fin((a.v \div FScale) * FScale) ELSE a

\* std::fmod: the remainder has the sign of the dividend
FMod(a, b) ==
  IF IsNaN(a) \/ IsNaN(b) \/ IsInf(a) THEN NaN
  ELSE IF IsInf(b) THEN a
  ELSE IF b.v = 0 THEN NaN
  ELSE Fin(Sign(a.v) * (Abs(a.v) % Abs(b.v)))

\* std::clamp(v, lo, hi) as the library computes it:
\* (v < lo) ? lo : (hi < v) ? hi : v, so a NaN passes through
FClamp(v, lo, hi) == IF FLt(v, lo) THEN lo ELSE IF FLt(hi, v) THEN hi ELSE v

\* v lies in [-1, 1]
InUnitRange(v) == IsFin(v) /\ -FScale <= v.v /\ v.v <= FScale

\* static_cast<F32>(u) of an integer, exact within the range
FFromU32(u) ==
  IF U32IsSmall(u) /\ U32ToInt(u) <= FMax \div FScale THEN FInt(U32ToInt(u))
  ELSE PInf

\* static_cast<U32>(a) is defined when the truncated value is representable
CastDefined(a) == IsFin(a) /\ a.v > -FScale

\* static_cast<U32>(a): truncation toward zero; ub is what the build yields
\* when the conversion is undefined (NaN, infinite, negative)
FToU32(a, ub) ==
  IF CastDefined(a) THEN U32FromInt(IF a.v < 0 THEN 0 ELSE a.v \div FScale)
  ELSE ub

----------------------------------------------------------------------------
(* Program constants                                                       *)

\* MAGIC = 0x41585344, "AXSD"
MAGIC == U32Of(16728, 21316)

CURRENT_VERSION == 3

A440 == FInt(440)

\* the length of echo_buffer_L and echo_buffer_R
EchoLength == 65535

NumChannels == 16

DrumChannel == 9

----------------------------------------------------------------------------
(* std::optional                                                           *)

None == <<>>
Some(v) == <<v>>
HasValue(o) == Len(o) = 1
Value(o) == o[1]

----------------------------------------------------------------------------
(* std::pow(2.0f, x): exact at whole octaves, tabulated at the semitones   *)
(* and linear between two semitones                                        *)

\* 2^(k/12) * 10000 for k = 0..12
TwelfthRoots ==
  <<10000, 10595, 11225, 11892, 12599, 13348, 14142, 14983, 15874, 16818,
    17818, 18877, 20000>>

RECURSIVE Pow2Int(_)
Pow2Int(n) == IF n = 0 THEN 1 ELSE 2 * Pow2Int(n - 1)

Pow2(x) ==
  IF IsNaN(x) THEN NaN
  ELSE IF IsInf(x) THEN (IF x.v > 0 THEN PInf ELSE FZero)
  ELSE LET o    == x.v \div FScale
           pos  == (x.v % FScale) * 12
           k    == pos \div FScale
           rem  == pos % FScale
           base == TwelfthRoots[k + 1]
                   + ((TwelfthRoots[k + 2] - TwelfthRoots[k + 1]) * rem) \div FScale
           unit == RoundDiv(base * FScale, 10000)
       IN  IF o > 15 THEN PInf
           ELSE IF o >= 0 THEN FSat(unit * Pow2Int(o))
           ELSE IF o < -20 THEN FZero
           ELSE Fin(RoundDiv(unit, Pow2Int(-o)))

\* calculate_12tet: pow(2, (note - 69 + bend) / 12) * A440
calculate_12tet(note, bend) ==
  FMul(Pow2(FDiv(FAdd(FSub(FInt(note), FInt(69)), bend), FInt(12))), A440)

\* calculate_mix: x * (1 - a) + y * a
calculate_mix(x, y, a) == FAdd(FMul(x, FSub(FOne, a)), FMul(y, a))

\* bit_cast<S32>(u) converted to F32
FFromS32(u) ==
  IF U32IsSmall(u) THEN FFromU32(u) ELSE FNeg(FFromU32(U32Sub(U32Zero, u)))

----------------------------------------------------------------------------
(* Voices and voice groups                                                 *)

\* voice_single{velocity, phase_add_by, note}: phase 0, key and active true
NewVoice(velocity, phase_add_by, note) ==
  [velocity |-> velocity, phase_add_by |-> phase_add_by, note |-> note,
   phase |-> FZero, key |-> TRUE, active |-> TRUE]

NewVoiceGroup == [kit |-> FALSE, voices |-> <<>>, bend |-> FZero]

NewDrumGroup == [kit |-> TRUE, voices |-> <<>>]

\* a default-constructed std::unique_ptr<voice_group_base>
NullGroup == [null |-> TRUE]

\* (waveform.at(here) - 128) / 128
SampleAt(waveform, here) ==
  FDiv(FSub(FInt(waveform[U32ToInt(here) + 1]), FInt(128)), FInt(128))

\* fault: only an index beyond waveform.size() counts as past the end
PastEnd_Beyond(here, waveform) == U32Lt(U32FromInt(Len(waveform)), here)

\* here >= patch.waveform.size()
PastEnd(here, waveform) == ~U32Lt(here, U32FromInt(Len(waveform)))

\* what accumulate_into did with voice i, kept for the properties: the index
\* it computed, the size of the waveform, whether it marked the voice
\* inactive instead of reading, and the sample it took
Noted(i, here, size, dead, sample, t) ==
  [t EXCEPT !.reads = <<[voice |-> i, here |-> here, size |-> size,
                         dead |-> dead, sample |-> sample]>> \o @]

\* voice_group::accumulate_into, from voice i on
RECURSIVE VoiceAccumulate(_, _, _, _, _, _)
VoiceAccumulate(voices, i, patch, l, r, ub) ==
  IF i > Len(voices)
  THEN [voices |-> voices, l |-> l, r |-> r, status |-> "ok", reads |-> <<>>]
  ELSE LET v == voices[i]
           \* v.phase += v.phase_add_by; l += ...; r += ...; the next voice
           Taken(here, sample, dead) ==
             Noted(i, here, Len(patch.waveform), dead, sample,
               VoiceAccumulate(
                 [voices EXCEPT ![i] = [v EXCEPT !.active = IF dead THEN FALSE ELSE @,
                                                 !.phase = FAdd(@, v.phase_add_by)]],
                 i + 1, patch,
                 FAdd(l, FMul(FMul(sample, v.velocity), patch.gain_L)),
                 FAdd(r, FMul(FMul(sample, v.velocity), patch.gain_R)), ub))
           \* here >= patch.waveform.size() ? else waveform.at(here), which throws
           \* std::out_of_range for an index that is not in the waveform
           Read(here, dead) ==
             IF dead THEN Taken(here, FZero, TRUE)
             ELSE IF ~U32Lt(here, U32FromInt(Len(patch.waveform)))
             THEN Noted(i, here, Len(patch.waveform), FALSE, FZero,
                        [voices |-> voices, l |-> l, r |-> r,
                         status |-> "out_of_range", reads |-> <<>>])
             ELSE Taken(here, SampleAt(patch.waveform, here), FALSE)
           At(here) == Read(here, PastEnd(here, patch.waveform))
           \* can_loop && here > loop_end, and v.key: here is folded into the loop
           Fold(here0, span, fold) ==
             IF fold /\ span = U32Zero
             THEN [voices |-> voices, l |-> l, r |-> r, status |-> "undefined",
                   reads |-> <<>>]
             ELSE At(IF fold
                     THEN U32Add(U32Mod(U32Sub(here0, patch.loop_start), span),
                                 patch.loop_start)
                     ELSE here0)
           From(here0) ==
             Fold(here0, U32Sub(patch.loop_end, patch.loop_start),
                  patch.loop_start # NoLoop /\ U32Lt(patch.loop_end, here0) /\ v.key)
       IN  From(FToU32(FFloor(FMul(patch.ratio, v.phase)), ub))

\* drum_group::accumulate_into, from voice i on
RECURSIVE DrumAccumulate(_, _, _, _, _, _)
DrumAccumulate(voices, i, mapping, l, r, ub) ==
  IF i > Len(voices)
  THEN [voices |-> voices, l |-> l, r |-> r, status |-> "ok", reads |-> <<>>]
  ELSE LET d     == voices[i]
           found == d.note \in DOMAIN mapping
           \* l += sample * d.velocity * gain_L; r += ...; the next voice
           Taken(here, size, sample, dead, gain_L, gain_R) ==
             Noted(i, here, size, dead, sample,
               DrumAccumulate(
                 [voices EXCEPT ![i] = [d EXCEPT !.active = IF dead THEN FALSE ELSE @,
                                                 !.phase = IF found
                                                           THEN FAdd(@, d.phase_add_by)
                                                           ELSE @]],
                 i + 1, mapping,
                 FAdd(l, FMul(FMul(sample, d.velocity), gain_L)),
                 FAdd(r, FMul(FMul(sample, d.velocity), gain_R)), ub))
           Read(patch, here, dead) ==
             IF dead
             THEN Taken(here, Len(patch.waveform), FZero, TRUE,
                        patch.gain_L, patch.gain_R)
             ELSE IF ~U32Lt(here, U32FromInt(Len(patch.waveform)))
             THEN Noted(i, here, Len(patch.waveform), FALSE, FZero,
                        [voices |-> voices, l |-> l, r |-> r,
                         status |-> "out_of_range", reads |-> <<>>])
             ELSE Taken(here, Len(patch.waveform), SampleAt(patch.waveform, here),
                        FALSE, patch.gain_L, patch.gain_R)
           At(patch, here) == Read(patch, here, PastEnd(here, patch.waveform))
           Hit(patch) == At(patch, FToU32(FMul(patch.ratio, d.phase), ub))
       IN  IF found THEN Hit(mapping[d.note])
           ELSE Taken(U32Zero, 0, FZero, TRUE, FZero, FZero)

----------------------------------------------------------------------------
(* player::handle_one                                                      *)

\* fault: every command up to the cursor is dispatched
EqualRange_UpTo(commands, cursor) ==
  SelectSeq(commands, LAMBDA c : U32Le(c.tick, cursor))

\* std::multimap::equal_range(cursor): the commands keyed by this tick, in
\* the order of the container
EqualRange(commands, cursor) == SelectSeq(commands, LAMBDA c : c.tick = cursor)

\* phase step of a melodic voice: calculate_12tet(note, bend) * frequency * 100
MelodicStep(note, bend, frequency) ==
  FMul(FMul(calculate_12tet(note, bend), frequency), FInt(100))

\* phase step of a drum voice: A440 * frequency * 32 * pi, with pi = 3.1416
DrumStep(frequency) ==
  FMul(FMul(FMul(A440, frequency), FInt(32)), Fin(RoundDiv(31416 * FScale, 10000)))

\* fault: the voice found is the last one with key set
first_on_Last(voices) ==
  LET held == {i \in 1..Len(voices) : voices[i].key}
  IN  IF held = {} THEN 0 ELSE CHOOSE i \in held : \A j \in held : j <= i

\* std::find_if(voices.begin(), voices.end(), key): the position of the first
\* voice with key set, 0 for voices.end()
first_on(voices) ==
  LET held == {i \in 1..Len(voices) : voices[i].key}
  IN  IF held = {} THEN 0 ELSE CHOOSE i \in held : \A j \in held : i <= j

\* one command of the equal range, applied to the player
DispatchOne(p, e) ==
  IF e.type \in {"note_on", "note_off", "pitchwheel", "program_change"}
     /\ e.channel >= NumChannels
  THEN [p |-> p, status |-> "undefined"]
  ELSE CASE e.type = "note_on" ->
         IF p.on_voices < p.max_voices
         THEN LET ch == p.channels[e.channel]
                  velocity == FDiv(FInt(e.velocity), FInt(127))
                  phase == IF ch.kit THEN DrumStep(p.frequency)
                           ELSE MelodicStep(e.note, ch.bend, p.frequency)
              IN  [p |-> [p EXCEPT !.channels[e.channel].voices =
                                      Append(@, NewVoice(velocity, phase, e.note))],
                   status |-> "ok"]
         ELSE [p |-> p, status |-> "ok"]
       [] e.type = "note_off" ->
         LET Found(k) ==
               IF k = 0 THEN [p |-> p, status |-> "ok"]
               ELSE [p |-> [p EXCEPT !.channels[e.channel].voices[k].key = FALSE],
                     status |-> "ok"]
         IN  Found(first_on(p.channels[e.channel].voices))
       [] e.type = "pitchwheel" ->
         LET ch == p.channels[e.channel]
             bend == FDiv(FFromS32(e.bend), FInt(4096))
         IN  IF ch.kit THEN [p |-> p, status |-> "ok"]
             ELSE [p |-> [p EXCEPT !.channels[e.channel] =
                            [ch EXCEPT !.bend = bend,
                                       !.voices = [i \in 1..Len(ch.voices) |->
                                          [ch.voices[i] EXCEPT !.phase_add_by =
                                             MelodicStep(ch.voices[i].note, bend,
                                                         p.frequency)]]]],
                   status |-> "ok"]
       [] e.type = "program_change" ->
         [p |-> [p EXCEPT !.patch_ids[e.channel] = Some(e.program)], status |-> "ok"]
       [] OTHER -> [p |-> p, status |-> "ok"]

\* the std::for_each over the equal range, from command i on
RECURSIVE DispatchAll(_, _, _)
DispatchAll(p, events, i) ==
  IF i > Len(events) THEN [p |-> p, status |-> "ok"]
  ELSE LET Then(d) == IF d.status # "ok" THEN d ELSE DispatchAll(d.p, events, i + 1)
       IN  Then(DispatchOne(p, events[i]))

\* fault: the voices whose key is released are removed, active or not
EraseInactive_Released(voices) == SelectSeq(voices, LAMBDA v : v.key)

\* fault: no voice is ever removed
EraseInactive_Keep(voices) == voices

\* std::erase_if(voices, !active)
EraseInactive(voices) == SelectSeq(voices, LAMBDA v : v.active)

\* whether the channel's voices are mixed and counted: the drum kit always,
\* a melodic channel when its patch_ids slot holds a value
ChannelIsMixed(p, i) == p.channels[i].kit \/ HasValue(p.patch_ids[i])

\* the loop over the 16 channels, from channel i on: reap, mix, count
RECURSIVE MixChannels(_, _, _, _, _)
MixChannels(p, i, l, r, ub) ==
  IF i = NumChannels THEN [p |-> p, l |-> l, r |-> r, status |-> "ok"]
  ELSE LET ch == p.channels[i]
           \* on_voices += voices.size(); the next channel
           Counted(p2, a) ==
             IF a.status # "ok"
             THEN [p |-> p2, l |-> a.l, r |-> a.r, status |-> a.status]
             ELSE MixChannels(p2, i + 1, a.l, a.r, ub)
           Mixed(p1, a) ==
             Counted([p1 EXCEPT !.channels[i].voices = a.voices,
                                !.on_voices = @ + Len(a.voices)], a)
           \* accumulate_into with patches.at(*patch_ids[i]) or with the drums
           Reaped(kept, p1) ==
             IF ~ChannelIsMixed(p, i) THEN MixChannels(p1, i + 1, l, r, ub)
             ELSE IF ch.kit
             THEN Mixed(p1, DrumAccumulate(kept, 1, p.current.drums, l, r, ub))
             ELSE IF Value(p.patch_ids[i]) \notin DOMAIN p.current.patches
             THEN [p |-> p1, l |-> l, r |-> r, status |-> "out_of_range"]
             ELSE Mixed(p1, VoiceAccumulate(kept, 1,
                                            p.current.patches[Value(p.patch_ids[i])],
                                            l, r, ub))
           Kept(kept) == Reaped(kept, [p EXCEPT !.channels[i].voices = kept])
       IN  Kept(EraseInactive(ch.voices))

\* seen is a record of what the call did, kept for the properties: the
\* cursor it computed and whether that conversion was defined, last_cursor and
\* on_voices as it found them, whether the equal range was dispatched, and
\* the commands dispatched, in order
handle_one(p, l, r, ub) ==
  LET \* on_voices = 0 and the loop over the channels
      Dispatched(seen, d) ==
        [seen |-> seen]
        @@ (IF d.status # "ok"
            THEN [p |-> d.p, l |-> l, r |-> r, status |-> d.status]
            ELSE MixChannels([d.p EXCEPT !.last_cursor = IF seen.fire
                                                         THEN Some(seen.cursor)
                                                         ELSE @,
                                         !.on_voices = 0],
                             0, l, r, ub))
      \* the std::for_each over commands.equal_range(cursor)
      Ranged(seen) ==
        Dispatched(seen, DispatchAll([p EXCEPT !.cursor = seen.cursor],
                                     seen.events, 1))
      \* if (!last_cursor || *last_cursor < cursor): the equal range is dispatched
      At(cursor, defined, fire) ==
        IF fire
        THEN Ranged([played |-> TRUE, cursor |-> cursor, defined |-> defined,
                     last |-> p.last_cursor, on_voices |-> p.on_voices,
                     fire |-> TRUE,
                     events |-> EqualRange(p.current.commands, cursor)])
        ELSE Dispatched([played |-> TRUE, cursor |-> cursor, defined |-> defined,
                         last |-> p.last_cursor, on_voices |-> p.on_voices,
                         fire |-> FALSE, events |-> <<>>],
                        [p |-> [p EXCEPT !.cursor = cursor], status |-> "ok"])
      Cursor(cursor, defined) ==
        At(cursor, defined,
           ~HasValue(p.last_cursor) \/ U32Lt(Value(p.last_cursor), cursor))
      \* cursor = static_cast<U32>(current.ticks_per_second * seconds_elapsed)
      Ticks(x) == Cursor(FToU32(x, ub), CastDefined(x))
  IN  Ticks(FMul(FFromU32(p.current.ticks_per_second), p.seconds_elapsed))

----------------------------------------------------------------------------
(* player::maybe_echo_one                                                  *)

\* echo_buffer_X[i]; the buffers hold 0.0f wherever nothing else is stored
EchoAt(buffer, i) == IF i \in DOMAIN buffer THEN buffer[i] ELSE FZero

EchoStore(buffer, i, v) ==
  IF v = FZero THEN [j \in DOMAIN buffer \ {i} |-> buffer[j]]
  ELSE [j \in DOMAIN buffer \cup {i} |-> IF j = i THEN v ELSE buffer[j]]

\* echo_cursor += cursor_increment; echo_cursor %= cursor_max, on U16
EchoAdvance(echo_cursor, env) ==
  ((echo_cursor + env.cursor_increment) % Pow16) % env.cursor_max

maybe_echo_one(p, l, r) ==
  IF ~HasValue(p.env_params) THEN [p |-> p, l |-> l, r |-> r, status |-> "ok"]
  ELSE LET env == Value(p.env_params)
           c   == p.echo_cursor
           eL  == FClamp(FMul(FAdd(EchoAt(p.echo_buffer_L, c), l), env.feedback_L),
                         FNeg(FOne), FOne)
           eR  == FClamp(FMul(FAdd(EchoAt(p.echo_buffer_R, c), r), env.feedback_R),
                         FNeg(FOne), FOne)
           p1  == [p EXCEPT !.echo_buffer_L = EchoStore(@, c, eL),
                            !.echo_buffer_R = EchoStore(@, c, eR)]
       IN  IF c >= EchoLength \/ env.cursor_max = 0
           THEN [p |-> p, l |-> l, r |-> r, status |-> "undefined"]
           ELSE [p |-> [p1 EXCEPT !.echo_cursor = EchoAdvance(c, env)],
                 l |-> calculate_mix(l, eL, env.wet_L),
                 r |-> calculate_mix(r, eR, env.wet_R),
                 status |-> "ok"]

----------------------------------------------------------------------------
(* player::tick                                                            *)

\* the samples tick stores for one frame: clamp(l), clamp(r) in stereo,
\* clamp((l + r) / 2) in mono
FrameSamples(in_stereo, l, r) ==
  IF in_stereo
  THEN <<FClamp(l, FNeg(FOne), FOne), FClamp(r, FNeg(FOne), FOne)>>
  ELSE <<FClamp(FDiv(FAdd(l, r), FInt(2)), FNeg(FOne), FOne)>>

\* seconds_elapsed += frequency, and the wrap at seconds_end
AdvanceTime(p) ==
  LET t == FAdd(p.seconds_elapsed, p.frequency)
  IN  IF FGt(t, p.seconds_end)
      THEN [p EXCEPT !.seconds_elapsed = FMod(t, p.seconds_end),
                     !.last_cursor = None]
      ELSE [p EXCEPT !.seconds_elapsed = t]

\* fault: a frame that calls handle_one and advances the time whether or not
\* playback is set
OneFrame_Unpaused(p, ub) ==
  LET Stored(seen, e) ==
        IF e.status # "ok"
        THEN [p |-> e.p, out |-> <<>>, status |-> e.status, seen |-> seen]
        ELSE [p |-> e.p, out |-> FrameSamples(p.in_stereo, e.l, e.r),
              status |-> "ok", seen |-> seen]
      Handled(h) ==
        IF h.status # "ok"
        THEN [p |-> h.p, out |-> <<>>, status |-> h.status, seen |-> h.seen]
        ELSE Stored(h.seen, maybe_echo_one(AdvanceTime(h.p), h.l, h.r))
  IN  Handled(handle_one(p, FZero, FZero, ub))

\* the body of the loop of tick: one frame.  seen is what handle_one did in
\* this frame, or that it was not called
OneFrame(p, ub) ==
  LET Stored(seen, e) ==
        IF e.status # "ok"
        THEN [p |-> e.p, out |-> <<>>, status |-> e.status, seen |-> seen]
        ELSE [p |-> e.p, out |-> FrameSamples(p.in_stereo, e.l, e.r),
              status |-> "ok", seen |-> seen]
      Handled(h) ==
        IF h.status # "ok"
        THEN [p |-> h.p, out |-> <<>>, status |-> h.status, seen |-> h.seen]
        ELSE Stored(h.seen,
                    maybe_echo_one(IF p.playback THEN AdvanceTime(h.p) ELSE h.p,
                                   h.l, h.r))
  IN  Handled(IF p.playback THEN handle_one(p, FZero, FZero, ub)
              ELSE [p |-> p, l |-> FZero, r |-> FZero, status |-> "ok",
                    seen |-> [played |-> FALSE, cursor |-> p.cursor,
                              defined |-> TRUE, last |-> p.last_cursor,
                              on_voices |-> p.on_voices,
                              fire |-> FALSE, events |-> <<>>]])

\* the loop of tick over the frames of the buffer; written holds the samples
\* stored so far, trace what handle_one did frame by frame
RECURSIVE TickFrames(_, _, _, _)
TickFrames(p, written, frames, ub) ==
  IF frames = 0 THEN [p |-> p, out |-> written, status |-> "ok", trace |-> <<>>]
  ELSE LET After(seen, t) == [t EXCEPT !.trace = <<seen>> \o @]
           Then(f) ==
             IF f.status # "ok"
             THEN [p |-> f.p, out |-> written, status |-> f.status,
                   trace |-> <<f.seen>>]
             ELSE After(f.seen, TickFrames(f.p, written \o f.out, frames - 1, ub))
       IN  Then(OneFrame(p, ub))

----------------------------------------------------------------------------
(* player::player, player::play, player::pause                             *)

\* a default-initialised song: no commands, patches or drums; the three
\* scalar members hold whatever uninit names
UninitSong(uninit) ==
  [version |-> uninit.version, ticks_end |-> uninit.ticks,
   ticks_per_second |-> uninit.ticks,
   commands |-> <<>>, patches |-> <<>>, drums |-> <<>>]

\* player(count, freq, stereo)
NewPlayer(count, freq, stereo, uninit) ==
  [seconds_elapsed |-> FZero,
   seconds_end     |-> uninit.seconds,
   frequency       |-> FDiv(FOne, FInt(freq)),
   max_voices      |-> count,
   on_voices       |-> 0,
   echo_buffer_L   |-> <<>>,
   echo_buffer_R   |-> <<>>,
   echo_cursor     |-> 0,
   env_params      |-> None,
   cursor          |-> U32Zero,
   last_cursor     |-> None,
   current         |-> UninitSong(uninit),
   in_stereo       |-> stereo,
   channels        |-> [i \in 0..(NumChannels - 1) |-> NullGroup],
   patch_ids       |-> [i \in 0..(NumChannels - 1) |-> None],
   playback        |-> FALSE]

\* fault: play without the reset of patch_ids
PlayPrologue_KeepPatchIds(p, next, env) ==
  [p EXCEPT !.env_params = env,
            !.current = next,
            !.channels = [i \in 0..(NumChannels - 1) |->
                            IF i = DrumChannel THEN NewDrumGroup ELSE NewVoiceGroup],
            !.seconds_elapsed = FZero,
            !.seconds_end = FDiv(FFromU32(next.ticks_end),
                                 FFromU32(next.ticks_per_second))]

\* the statements of play before the version test
PlayPrologue(p, next, env) ==
  [p EXCEPT !.env_params = env,
            !.current = next,
            !.channels = [i \in 0..(NumChannels - 1) |->
                            IF i = DrumChannel THEN NewDrumGroup ELSE NewVoiceGroup],
            !.patch_ids = [i \in 0..(NumChannels - 1) |-> None],
            !.seconds_elapsed = FZero,
            !.seconds_end = FDiv(FFromU32(next.ticks_end),
                                 FFromU32(next.ticks_per_second))]

\* fault: the version test accepts every version from 3 on
VersionAccepted_AtLeast(song) == song.version >= CURRENT_VERSION

\* the version test of play
VersionAccepted(song) == song.version = CURRENT_VERSION

\* fault: play without cursor = 0
PlayEpilogue_KeepCursor(p) ==
  [p EXCEPT !.on_voices = 0,
            !.echo_cursor = 0,
            !.last_cursor = None,
            !.playback = TRUE]

\* the statements of play after the version test
PlayEpilogue(p) ==
  [p EXCEPT !.on_voices = 0,
            !.cursor = U32Zero,
            !.echo_cursor = 0,
            !.last_cursor = None,
            !.playback = TRUE]

\* player::play(next, env)
play(p, next, env) ==
  LET p1 == PlayPrologue(p, next, env)
  IN  IF ~VersionAccepted(p1.current)
      THEN [p |-> p1, status |-> "version_mismatch"]
      ELSE [p |-> PlayEpilogue(p1), status |-> "ok"]

\* player::pause: declared in the header, its body is not among the sources;
\* its documentation has it set playback = false and leave the rest alone
pause(p) == [p EXCEPT !.playback = FALSE]

----------------------------------------------------------------------------
(* song::load                                                              *)

\* std::bit_cast<F32>(u): sign, 8 exponent bits, 23 fraction bits.  Values
\* below the resolution (subnormals included) become 0.
BitsToF32(u) ==
  LET sign == IF u.hi >= 32768 THEN -1 ELSE 1
      e    == (u.hi % 32768) \div 128
      m    == (u.hi % 128) * Pow16 + u.lo
      mant == 8388608 + m
      X    == (mant \div 4096) * FScale
      Y    == (mant % 4096) * FScale
      shift == 150 - e
  IN  IF e = 255 THEN (IF m = 0 THEN Inf(sign) ELSE NaN)
      ELSE IF e = 0 \/ shift > 42 THEN FZero
      ELSE IF shift >= 12
      THEN Fin(sign * RoundDiv(X + Y \div 4096, Pow2Int(shift - 12)))
      ELSE IF shift >= 8
      THEN FSat(sign * (X * Pow2Int(12 - shift) + Y \div Pow2Int(shift)))
      ELSE Inf(sign)

\* command_type values
TAG_note_on == 1
TAG_note_off == 2
TAG_pitchwheel == 3
TAG_program_change == 4
TAG_patch_data == 128
TAG_drum_data == 129
TAG_version == 252
TAG_rate == 253
TAG_end_of_track == 254

\* fault: a table that also holds the byte 0, with no payload
byte_sizes_padded ==
  (0 :> 0) @@ (TAG_note_on :> 7) @@ (TAG_note_off :> 5) @@ (TAG_pitchwheel :> 9)
  @@ (TAG_program_change :> 6) @@ (TAG_patch_data :> 25) @@ (TAG_drum_data :> 17)
  @@ (TAG_version :> 2) @@ (TAG_rate :> 4) @@ (TAG_end_of_track :> 4)

\* byte_sizes: the fixed payload size of every command_type
byte_sizes ==
  (TAG_note_on :> 7) @@ (TAG_note_off :> 5) @@ (TAG_pitchwheel :> 9)
  @@ (TAG_program_change :> 6) @@ (TAG_patch_data :> 25) @@ (TAG_drum_data :> 17)
  @@ (TAG_version :> 2) @@ (TAG_rate :> 4) @@ (TAG_end_of_track :> 4)

\* fault: the song starts out with the current version
EmptySong_Current ==
  [version |-> 3, ticks_end |-> U32Zero, ticks_per_second |-> U32Zero,
   commands |-> <<>>, patches |-> <<>>, drums |-> <<>>]

\* song{}: value-initialised scalars, empty containers
EmptySong ==
  [version |-> 0, ticks_end |-> U32Zero, ticks_per_second |-> U32Zero,
   commands |-> <<>>, patches |-> <<>>, drums |-> <<>>]

\* fault: the new element goes before the elements of the same key
Emplace_Front(commands, c) ==
  LET before == SelectSeq(commands, LAMBDA x : U32Lt(x.tick, c.tick))
      after  == SelectSeq(commands, LAMBDA x : U32Le(c.tick, x.tick))
  IN  before \o <<c>> \o after

\* std::multimap::emplace: after the last element whose key is not greater
Emplace(commands, c) ==
  LET before == SelectSeq(commands, LAMBDA x : U32Le(x.tick, c.tick))
      after  == SelectSeq(commands, LAMBDA x : U32Lt(c.tick, x.tick))
  IN  before \o <<c>> \o after

\* std::map::insert: an existing key keeps its value
MapInsert(map, key, value) ==
  IF key \in DOMAIN map THEN map
  ELSE [k \in DOMAIN map \cup {key} |-> IF k = key THEN value ELSE map[k]]

\* fault: the four payload bytes assembled with the first as the high byte
Field32_BigEndian(payload, i) ==
  U32FromBytes(payload[i + 3], payload[i + 2], payload[i + 1], payload[i])

\* four payload bytes from position i (1-based) as a little-endian U32
Field32(payload, i) ==
  U32FromBytes(payload[i], payload[i + 1], payload[i + 2], payload[i + 3])

\* fault: the magic assembled with data[0] as the low byte
MagicOf_LittleEndian(data) == U32FromBytes(data[1], data[2], data[3], data[4])

\* the magic of the buffer, (data[0] << 24) | ... | (data[3] << 0)
MagicOf(data) == U32FromBytes(data[4], data[3], data[2], data[1])

\* the switch of load for a record without waveform
LoadCommand(song, tag, payload) ==
  CASE tag = TAG_note_on ->
         [song EXCEPT !.commands = Emplace(@,
            [tick |-> Field32(payload, 1), type |-> "note_on", channel |-> payload[5],
             note |-> payload[6], velocity |-> payload[7]])]
    [] tag = TAG_note_off ->
         [song EXCEPT !.commands = Emplace(@,
            [tick |-> Field32(payload, 1), type |-> "note_off", channel |-> payload[5]])]
    [] tag = TAG_pitchwheel ->
         [song EXCEPT !.commands = Emplace(@,
            [tick |-> Field32(payload, 1), type |-> "pitchwheel", channel |-> payload[5],
             bend |-> Field32(payload, 6)])]
    [] tag = TAG_program_change ->
         [song EXCEPT !.commands = Emplace(@,
            [tick |-> Field32(payload, 1), type |-> "program_change",
             channel |-> payload[5], program |-> payload[6]])]
    [] tag = TAG_version ->
         [song EXCEPT !.version = payload[1] + 256 * payload[2],
                      !.commands = Emplace(@,
            [tick |-> U32Zero, type |-> "version",
             song_version |-> payload[1] + 256 * payload[2]])]
    [] tag = TAG_rate ->
         [song EXCEPT !.ticks_per_second = Field32(payload, 1),
                      !.commands = Emplace(@,
            [tick |-> U32Zero, type |-> "rate", song_rate |-> Field32(payload, 1)])]
    [] tag = TAG_end_of_track ->
         [song EXCEPT !.commands = Emplace(@,
                         [tick |-> song.ticks_end, type |-> "end_of_track"]),
                      !.ticks_end = Field32(payload, 1)]
    [] OTHER -> song

\* the patch_data case once the waveform is read
LoadPatch(song, payload, waveform) ==
  [song EXCEPT !.patches = MapInsert(@, payload[1],
      [waveform |-> waveform,
       loop_start |-> Field32(payload, 6), loop_end |-> Field32(payload, 10),
       ratio |-> BitsToF32(Field32(payload, 14)),
       gain_L |-> BitsToF32(Field32(payload, 18)),
       gain_R |-> BitsToF32(Field32(payload, 22))]),
    !.commands = Emplace(@, [tick |-> U32Zero, type |-> "patch_data"])]

\* the drum_data case once the waveform is read
LoadDrum(song, payload, waveform) ==
  [song EXCEPT !.drums = MapInsert(@, payload[1],
      [waveform |-> waveform,
       ratio |-> BitsToF32(Field32(payload, 6)),
       gain_L |-> BitsToF32(Field32(payload, 10)),
       gain_R |-> BitsToF32(Field32(payload, 14))]),
    !.commands = Emplace(@, [tick |-> U32Zero, type |-> "drum_data"])]

\* what load throws: the exception type and the container whose at() threw
Thrown(error, origin) == [status |-> error, origin |-> origin]

\* the tag lookup of load: byte_sizes.at(what_value) finds the tag
TagKnown(tag) == tag \in DOMAIN byte_sizes

\* the while loop of load from record position where (0-based)
RECURSIVE LoadRecords(_, _, _)
LoadRecords(data, where, song) ==
  IF where >= Len(data) THEN [status |-> "ok", song |-> song]
  ELSE LET tag == data[where + 1]
           n   == byte_sizes[tag]
           payload == SubSeq(data, where + 2, where + n + 1)
           last == where + n
           width == Field32(payload, 2)
           w == U32ToInt(width)
           waveform == SubSeq(data, last + 2, last + w + 1)
       IN  IF ~TagKnown(tag) THEN Thrown("out_of_range", "map::at")
           ELSE IF last >= Len(data) THEN Thrown("out_of_range", "vector::at")
           ELSE IF tag \in {TAG_patch_data, TAG_drum_data}
           \* waveform.resize(width), then data.at(++where) for every byte
           THEN IF ~U32IsSmall(width) \/ w > Len(data) \/ last + w >= Len(data)
                THEN Thrown("out_of_range", "vector::at")
                ELSE LoadRecords(data, last + w + 1,
                       IF tag = TAG_patch_data THEN LoadPatch(song, payload, waveform)
                       ELSE LoadDrum(song, payload, waveform))
           ELSE LoadRecords(data, last + 1, LoadCommand(song, tag, payload))

\* the magic test of load
MagicAccepted(data) == MagicOf(data) = MAGIC

\* the positions (1-based) the magic test reads with operator[], unchecked
MagicIndices == 1..4

\* song::load(data).  data[0..3] are read unchecked: on a buffer shorter
\* than four bytes the missing ones are whatever lies behind it (junk), and
\* past_end records that load read there.
load(data, junk) ==
  [past_end |-> \E i \in MagicIndices : i > Len(data)]
  @@ (IF ~MagicAccepted(SubSeq(data \o junk, 1, 4))
      THEN Thrown("runtime_error", "magic")
      ELSE LoadRecords(data, 4, EmptySong))

\* song::load_xxd_format(data, len): copies len bytes into a vector, loads it
load_xxd_format(bytes, len, junk) == load(SubSeq(bytes, 1, len), junk)

----------------------------------------------------------------------------
(* Inputs: AXSD records, byte for byte                                     *)

\* IEEE-754 bit patterns of the floats the input songs carry
BitsOne == U32Of(16256, 0)
BitsHalf == U32Of(16128, 0)
BitsNaN == U32Of(32704, 0)
\* 1/440: one waveform byte per frame for note 69 at 100 Hz
BitsRatio == U32Of(15124, 61961)

MagicBytes == <<65, 88, 83, 68>>

RecVersion(v) == <<TAG_version, v % 256, v \div 256>>
RecRate(r) == <<TAG_rate>> \o U32ToBytes(U32FromInt(r))
RecEndOfTrack(t) == <<TAG_end_of_track>> \o U32ToBytes(U32FromInt(t))
RecNoteOn(t, ch, note, vel) ==
  <<TAG_note_on>> \o U32ToBytes(U32FromInt(t)) \o <<ch, note, vel>>
RecNoteOff(t, ch) == <<TAG_note_off>> \o U32ToBytes(U32FromInt(t)) \o <<ch>>
RecPitchWheel(t, ch, bend) ==
  <<TAG_pitchwheel>> \o U32ToBytes(U32FromInt(t)) \o <<ch>> \o U32ToBytes(bend)
RecProgramChange(t, ch, prog) ==
  <<TAG_program_change>> \o U32ToBytes(U32FromInt(t)) \o <<ch, prog>>
RecPatchData(prog, wave, loop_start, loop_end, ratio, gain_L, gain_R) ==
  <<TAG_patch_data, prog>> \o U32ToBytes(U32FromInt(Len(wave)))
  \o U32ToBytes(loop_start) \o U32ToBytes(loop_end)
  \o U32ToBytes(ratio) \o U32ToBytes(gain_L) \o U32ToBytes(gain_R) \o wave
RecDrumData(drum, wave, ratio, gain_L, gain_R) ==
  <<TAG_drum_data, drum>> \o U32ToBytes(U32FromInt(Len(wave)))
  \o U32ToBytes(ratio) \o U32ToBytes(gain_L) \o U32ToBytes(gain_R) \o wave

RECURSIVE Concat(_)
Concat(seqs) == IF seqs = <<>> THEN <<>> ELSE Head(seqs) \o Concat(Tail(seqs))

\* the sample rate the players are built with
SampleRates == {100}

WaveA == <<255, 255, 0, 0>>
PatchLoop == RecPatchData(0, WaveA, U32Zero, U32FromInt(4), BitsRatio, BitsOne, BitsOne)
PatchShot == RecPatchData(1, <<255, 0>>, NoLoop, U32Zero, BitsRatio, BitsOne, BitsHalf)
PatchNaN == RecPatchData(2, WaveA, U32Zero, U32FromInt(4), BitsRatio, BitsNaN, BitsOne)
DrumA == RecDrumData(42, <<0, 255>>, BitsRatio, BitsOne, BitsOne)

\* a song file: the magic, then the records
File(records) == MagicBytes \o Concat(records)

Header(v, rate) == <<RecVersion(v), RecRate(rate)>>

\* the bodies of the songs played: what follows Version 3 and Rate 100
Bodies ==
  { <<>>,
    <<PatchLoop, RecProgramChange(0, 0, 0), RecNoteOn(0, 0, 69, 127)>>,
    <<PatchShot, RecProgramChange(0, 0, 1), RecNoteOn(0, 0, 69, 127),
      RecNoteOn(1, 0, 81, 64)>>,
    <<PatchLoop, RecProgramChange(0, 0, 7), RecNoteOn(0, 0, 69, 127),
      RecProgramChange(2, 0, 0)>>,
    <<PatchLoop, RecProgramChange(0, 0, 0), RecNoteOn(0, 0, 69, 127),
      RecNoteOn(0, 0, 81, 64), RecNoteOn(0, 1, 57, 127), RecNoteOff(1, 0)>>,
    <<PatchLoop, RecNoteOn(0, 1, 69, 127), RecNoteOn(1, 1, 69, 127),
      RecProgramChange(2, 1, 0)>>,
    <<PatchNaN, RecProgramChange(0, 0, 2), RecNoteOn(0, 0, 69, 127)>>,
    <<DrumA, RecNoteOn(0, 9, 42, 100), RecNoteOn(1, 9, 43, 100)>>,
    <<PatchLoop, RecProgramChange(0, 0, 0), RecPitchWheel(0, 0, U32FromInt(4096)),
      RecNoteOn(0, 0, 69, 127), RecNoteOff(1, 0), RecNoteOff(1, 0)>> }

\* the songs the host holds, as their records: every one ends in EndOfTrack
Tracks ==
  { Header(3, 100) \o b \o <<RecEndOfTrack(3)>> : b \in Bodies }
  \cup { Header(v, 100) \o <<RecNoteOn(0, 0, 69, 127), RecEndOfTrack(3)>> :
           v \in {2, 259} }
  \cup { <<RecRate(100), PatchLoop, RecEndOfTrack(3)>> }
  \cup { Header(3, r) \o <<PatchLoop, RecProgramChange(0, 0, 0),
                           RecNoteOn(0, 0, 69, 127), RecNoteOn(1, 0, 69, 127),
                           RecEndOfTrack(2)>> : r \in {0, 200} }

\* the song files the host holds
Library == { File(t) : t \in Tracks }

\* the positions (0-based) where the records of a file start, and its end
RecordStarts(records) ==
  { 4 + Len(Concat(SubSeq(records, 1, k))) : k \in 0..(Len(records) - 1) }

Boundaries(records) == RecordStarts(records) \cup {Len(File(records))}

\* four bytes that are not the magic: reversed, last byte off, lower case, zero
BadMagics ==
  { <<68, 83, 88, 65>>, <<65, 88, 83, 69>>, <<97, 120, 115, 100>>, <<0, 0, 0, 0>> }

\* bytes that are no command_type
UnknownTags == {0, 5, 127, 130, 251, 255}

\* the echo configurations passed to play
EchoA ==
  [feedback_L |-> Fin(FScale \div 2), feedback_R |-> Fin(FScale \div 2),
   wet_L |-> Fin(FScale \div 2), wet_R |-> FOne,
   cursor_increment |-> 1, cursor_max |-> 2]

Environments == {None, Some(EchoA)}

\* what the members without initialiser may hold after construction
Uninits ==
  << [version |-> 0, ticks |-> U32Zero, seconds |-> FZero],
     [version |-> CURRENT_VERSION, ticks |-> U32FromInt(7), seconds |-> NaN] >>

\* the players built: max_voices, stereo, and what construction left behind
PlayerConfigs ==
  { [count |-> 2, stereo |-> TRUE, uninit |-> Uninits[1]],
    [count |-> 1, stereo |-> FALSE, uninit |-> Uninits[2]] }

\* what an undefined float-to-integer conversion may yield
UBCasts == {U32Zero, Half32}

\* what lies behind a buffer shorter than the magic
Junk ==
  { SubSeq(MagicBytes \o <<0, 0, 0>>, k, k + 3) : k \in 1..4 } \cup { <<0, 0, 0, 0>> }

(* Songs as their records, field by field, in the order of the file *)
Version(v) == [type |-> "version", song_version |-> v]
Rate(r) == [type |-> "rate", song_rate |-> U32FromInt(r)]
EndOfTrack(t) == [type |-> "end_of_track", tick |-> U32FromInt(t)]
NoteOn(t, ch, note, vel) ==
  [type |-> "note_on", tick |-> U32FromInt(t), channel |-> ch, note |-> note,
   velocity |-> vel]
NoteOff(t, ch) == [type |-> "note_off", tick |-> U32FromInt(t), channel |-> ch]
PitchWheel(t, ch, bend) ==
  [type |-> "pitchwheel", tick |-> U32FromInt(t), channel |-> ch, bend |-> bend]
ProgramChange(t, ch, prog) ==
  [type |-> "program_change", tick |-> U32FromInt(t), channel |-> ch,
   program |-> prog]
PatchData(prog, wave, loop_start, loop_end, ratio, gain_L, gain_R) ==
  [type |-> "patch_data", program |-> prog, waveform |-> wave,
   loop_start |-> U32FromInt(loop_start), loop_end |-> U32FromInt(loop_end),
   ratio |-> ratio, gain_L |-> gain_L, gain_R |-> gain_R]
DrumData(drum, wave, ratio, gain_L, gain_R) ==
  [type |-> "drum_data", drum |-> drum, waveform |-> wave,
   ratio |-> ratio, gain_L |-> gain_L, gain_R |-> gain_R]

\* the bytes of one record in the AXSD layout
Encode(rec) ==
  CASE rec.type = "version" -> RecVersion(rec.song_version)
    [] rec.type = "rate" -> RecRate(U32ToInt(rec.song_rate))
    [] rec.type = "end_of_track" -> RecEndOfTrack(U32ToInt(rec.tick))
    [] rec.type = "note_on" ->
         RecNoteOn(U32ToInt(rec.tick), rec.channel, rec.note, rec.velocity)
    [] rec.type = "note_off" -> RecNoteOff(U32ToInt(rec.tick), rec.channel)
    [] rec.type = "pitchwheel" ->
         RecPitchWheel(U32ToInt(rec.tick), rec.channel, rec.bend)
    [] rec.type = "program_change" ->
         RecProgramChange(U32ToInt(rec.tick), rec.channel, rec.program)
    [] rec.type = "patch_data" ->
         RecPatchData(rec.program, rec.waveform, rec.loop_start, rec.loop_end,
                      rec.ratio, rec.gain_L, rec.gain_R)
    [] rec.type = "drum_data" ->
         RecDrumData(rec.drum, rec.waveform, rec.ratio, rec.gain_L, rec.gain_R)

\* the file of a score: the magic, then its records one after the other
EncodeAll(score) == File([k \in 1..Len(score) |-> Encode(score[k])])

\* a two-byte waveform looped over its whole length
PatchTwo == PatchData(0, <<255, 0>>, 0, 2, BitsRatio, BitsOne, BitsOne)
\* a four-byte waveform whose loop ends before the last byte
PatchInner == PatchData(0, WaveA, 1, 3, BitsRatio, BitsOne, BitsOne)

\* bend fields: +4096 (one semitone up) and -4096
BendUp == U32FromInt(4096)
BendDown == U32Of(65535, 61440)

\* the scores played frame by frame
ScoreLoop ==
  <<Version(3), Rate(100), PatchTwo, ProgramChange(0, 0, 0),
    NoteOn(0, 0, 69, 127), NoteOn(2, 0, 81, 64), EndOfTrack(3)>>
ScoreInner ==
  <<Version(3), Rate(100), PatchInner, ProgramChange(0, 0, 0),
    NoteOn(0, 0, 69, 127), NoteOff(3, 0), EndOfTrack(3)>>
ScoreFast ==
  <<Version(3), Rate(200), PatchInner, ProgramChange(0, 0, 0),
    NoteOn(0, 0, 69, 127), NoteOn(1, 0, 81, 64), NoteOff(2, 0), EndOfTrack(4)>>
ScoreEndZero ==
  <<Version(3), Rate(100), PatchInner, ProgramChange(0, 0, 0),
    NoteOn(0, 0, 69, 127), EndOfTrack(0)>>
ScoreEmptyEndZero == <<Version(3), Rate(100), EndOfTrack(0)>>
ScoreRateZero ==
  <<Version(3), Rate(0), PatchInner, ProgramChange(0, 0, 0),
    NoteOn(0, 0, 69, 127), EndOfTrack(2)>>
ScoreDrumMiss == <<Version(3), Rate(100), NoteOn(1, 9, 42, 100), EndOfTrack(3)>>
ScoreOrder ==
  <<Version(3), Rate(100), PatchInner, ProgramChange(0, 0, 0),
    PitchWheel(0, 0, BendUp), NoteOn(0, 0, 69, 127), NoteOn(0, 0, 81, 64),
    NoteOff(1, 0), PitchWheel(1, 0, BendDown), NoteOff(2, 0), EndOfTrack(3)>>
ScoreOffFirst ==
  <<Version(3), Rate(100), NoteOff(0, 0), NoteOn(0, 0, 69, 127),
    ProgramChange(0, 0, 0), PatchInner, EndOfTrack(3)>>
\* fields that differ in every byte, ticks out of file order
ScoreFields ==
  <<Version(3), Rate(100),
    DrumData(42, <<9, 8, 7>>, BitsHalf, BitsOne, BitsRatio),
    NoteOn(16909060, 15, 127, 1), NoteOff(258, 14),
    PatchData(200, <<1, 2, 3, 4, 5>>, 1, 4, BitsRatio, BitsHalf, BitsOne),
    PitchWheel(65536, 3, BendDown), ProgramChange(3, 15, 200),
    PatchData(7, <<>>, 0, 0, BitsOne, BitsOne, BitsHalf),
    NoteOn(1, 9, 42, 100), EndOfTrack(3)>>

\* a patch whose loop starts where it ends, held
PatchEmptyLoop == PatchData(0, WaveA, 1, 1, BitsRatio, BitsOne, BitsOne)
ScoreEmptyLoop ==
  <<Version(3), Rate(100), PatchEmptyLoop, ProgramChange(0, 0, 0),
    NoteOn(0, 0, 69, 127), EndOfTrack(5)>>

\* a NoteOn whose channel byte is 16
ScoreChannel16 ==
  <<Version(3), Rate(100), PatchInner, ProgramChange(0, 0, 0),
    NoteOn(0, 0, 69, 127), NoteOn(1, 16, 69, 127), EndOfTrack(3)>>

Scores ==
  { ScoreLoop, ScoreInner, ScoreFast, ScoreEndZero, ScoreEmptyEndZero,
    ScoreRateZero, ScoreDrumMiss, ScoreOrder, ScoreOffFirst, ScoreFields,
    ScoreEmptyLoop, ScoreChannel16 }

(* Bounds *)
MaxFrames == 3
MaxTick == 2
MaxPlays == 2
MaxSteps == 6
MaxVoices == 3
MaxMix == 5
MaxEcho == 4

----------------------------------------------------------------------------
(* State                                                                   *)

VARIABLES
  data,       \* the byte buffer last handed to song::load
  shape,      \* how that buffer was made (whole, or what was damaged)
  loaded,     \* what that load returned or threw; "none" once moved away
  player,     \* the player object
  audio,      \* the samples the last tick stored in its buffer
  result,     \* the last player call, its arguments and how it ended
  frames,     \* frames requested so far
  plays,      \* play calls so far
  first_play, \* the first successful play: its arguments, the player after it
  history     \* what handle_one did in each frame ticked since the last play

vars ==
  <<data, shape, loaded, player, audio, result, frames, plays, first_play, history>>

Whole == [magic |-> "ok", body |-> "whole", at |-> 0]

Init ==
  /\ data = <<>>
  /\ shape = Whole
  /\ loaded = [status |-> "none"]
  /\ \E c \in PlayerConfigs, f \in SampleRates :
       player = NewPlayer(c.count, f, c.stereo, c.uninit)
  /\ audio = <<>>
  /\ result = [op |-> "new", status |-> "ok"]
  /\ frames = 0
  /\ plays = 0
  /\ first_play = None
  /\ history = <<>>

\* the host is still running: no player call has had undefined behaviour
Running == result.status # "undefined"

\* song::load_xxd_format on the first len bytes of b
Decode(b, len, sh) ==
  /\ Running
  /\ \E junk \in Junk : loaded' = load_xxd_format(b, len, junk)
  /\ data' = SubSeq(b, 1, len)
  /\ shape' = sh
  /\ UNCHANGED <<player, audio, result, frames, plays, first_play, history>>

\* the host loads one of its song files
Load ==
  /\ loaded.status # "ok"
  /\ plays < MaxPlays
  /\ \E b \in Library : Decode(b, Len(b), Whole)

\* player.play(std::move(song), env) with the song just loaded
Play ==
  /\ Running
  /\ loaded.status = "ok"
  /\ plays < MaxPlays
  /\ \E env \in Environments :
       \E r \in {play(player, loaded.song, env)} :
         /\ player' = r.p
         /\ result' = [op |-> "play", status |-> r.status,
                       song |-> loaded.song, env |-> env, before |-> player]
         /\ first_play' = IF r.status = "ok" /\ ~HasValue(first_play)
                          THEN Some([song |-> loaded.song, env |-> env,
                                     player |-> r.p, nth |-> plays + 1])
                          ELSE first_play
  /\ loaded' = [status |-> "none"]
  /\ plays' = plays + 1
  /\ history' = <<>>
  /\ UNCHANGED <<data, shape, audio, frames>>

\* player.tick(audio) on a buffer of n frames, at most most frames overall
TickOf(n, most) ==
  /\ Running
  /\ frames + n <= most
  /\ \E ub \in UBCasts :
       \E t \in {TickFrames(player, <<>>, n, ub)} :
         /\ player' = t.p
         /\ audio' = t.out
         /\ result' = [op |-> "tick", status |-> t.status]
         /\ history' = history \o t.trace
  /\ frames' = frames + n
  /\ UNCHANGED <<data, shape, loaded, plays, first_play>>

Tick == \E n \in 1..MaxTick : TickOf(n, MaxFrames)

\* player.pause()
Pause ==
  /\ Running
  /\ player' = pause(player)
  /\ result' = [op |-> "pause", status |-> "ok"]
  /\ UNCHANGED <<data, shape, loaded, audio, frames, plays, first_play, history>>

Next == Load \/ Play \/ Tick \/ Pause

Spec == Init /\ [][Next]_vars

----------------------------------------------------------------------------
(* The decoder on damaged buffers: the host decodes a buffer, and once    *)
(* more with its first four bytes overwritten                              *)

\* the host passes a len short of the file: the copy
\* ends at a record boundary (a shorter, whole file), inside a record, or
\* inside the magic
LoadCut ==
  /\ loaded.status = "none"
  /\ \E t \in Tracks :
       \E len \in 0..(Len(File(t)) - 1) :
         Decode(File(t), len,
                [magic |-> IF len < 4 THEN "short" ELSE "ok",
                 body  |-> IF len < 4 \/ len \in Boundaries(t) THEN "whole" ELSE "cut",
                 at    |-> len])

\* the byte at a record start replaced by one that is no command_type
LoadUnknownTag ==
  /\ loaded.status = "none"
  /\ \E t \in Tracks :
       \E k \in RecordStarts(t), u \in UnknownTags :
         Decode([File(t) EXCEPT ![k + 1] = u], Len(File(t)),
                [magic |-> "ok", body |-> "unknown_tag", at |-> k])

\* the first four bytes of the buffer loaded last replaced
LoadBadMagic ==
  /\ Len(data) >= 4
  /\ shape.magic = "ok"
  /\ \E m \in BadMagics :
       Decode(m \o SubSeq(data, 5, Len(data)), Len(data),
              [shape EXCEPT !.magic = "bad"])

LoadWhole ==
  /\ loaded.status = "none"
  /\ \E b \in Library : Decode(b, Len(b), Whole)

NextLoad == LoadWhole \/ LoadCut \/ LoadUnknownTag \/ LoadBadMagic

SpecLoad == Init /\ [][NextLoad]_vars

----------------------------------------------------------------------------
(* One song played frame by frame: the host encodes a score, loads the    *)
(* file, plays it and ticks one frame at a time                            *)

\* the shape of a buffer encoded from a score: the score is kept with it
Encoded(score) == [magic |-> "ok", body |-> "encoded", at |-> 0, score |-> score]

LoadScore ==
  /\ loaded.status = "none"
  /\ plays = 0
  /\ \E score \in Scores :
       Decode(EncodeAll(score), Len(EncodeAll(score)), Encoded(score))

\* player.tick(audio) on a buffer of one frame, once a song was played
Step == plays > 0 /\ TickOf(1, MaxSteps)

NextSong == LoadScore \/ Play \/ Step \/ Pause

SpecSong == Init /\ [][NextSong]_vars

----------------------------------------------------------------------------
(* Properties of the player, under Spec                                    *)

ChannelIds == 0..(NumChannels - 1)

\* the voices channel i holds (a null group holds none)
Voices(p, i) ==
  IF "voices" \in DOMAIN p.channels[i] THEN p.channels[i].voices ELSE <<>>

\* every voice of the player, as <<channel, position>>
HeldVoices(p) ==
  UNION { { <<i, j>> : j \in 1..Len(Voices(p, i)) } : i \in ChannelIds }

ActiveVoices(p) == { x \in HeldVoices(p) : Voices(p, x[1])[x[2]].active }

\* the last call was a play that returned
Played == result.op = "play" /\ result.status = "ok"

\* the last call was a tick that returned
Ticked == result.op = "tick" /\ result.status = "ok"

\* C1: play throws the version-mismatch error for every song whose version
\* is not 3, and for every song whose version is 3 it returns with
\* playback = true.
C1_VersionGate ==
  result.op = "play" =>
    /\ result.song.version # 3 => result.status = "version_mismatch"
    /\ result.song.version = 3 => result.status = "ok" /\ player.playback

\* a song of another version is rejected by a player that played before
C1_Witness ==
  /\ result.op = "play"
  /\ result.song.version # 3
  /\ result.status = "version_mismatch"
  /\ HasValue(first_play)

\* C2: tick never fails: no tick call ends in an exception, whatever
\* program the channels are bound to.
C2_TickNeverFails == result.op = "tick" => result.status # "out_of_range"

\* C3: at the end of every rendered frame the 16 channels hold at most
\* max_voices voices in total.
C3_VoiceBudget == Ticked => Cardinality(HeldVoices(player)) <= player.max_voices

\* C4: after handle_one, on_voices is the number of voices with
\* active = true over all 16 channels.
C4_OnVoicesCountsActive ==
  Ticked /\ player.playback =>
    player.on_voices = Cardinality(ActiveVoices(player))

\* C5: every sample tick stores lies in [-1, 1].
C5_SamplesInRange == \A i \in 1..Len(audio) : InUnitRange(audio[i])

\* C6: a play that returns leaves 16 empty voice lists (channel 9 a drum
\* group, the others melodic groups with bend 0), no patch_ids slot set,
\* seconds_elapsed, cursor, echo_cursor and on_voices 0, last_cursor unset,
\* playback true and seconds_end = ticks_end / ticks_per_second of the song.
C6_PlayResets ==
  Played =>
    /\ \A i \in ChannelIds :
         /\ player.channels[i] =
              IF i = 9 THEN [kit |-> TRUE, voices |-> <<>>]
              ELSE [kit |-> FALSE, voices |-> <<>>, bend |-> FZero]
         /\ player.patch_ids[i] = None
    /\ player.seconds_elapsed = FZero
    /\ player.cursor = U32Zero
    /\ player.echo_cursor = 0
    /\ player.on_voices = 0
    /\ player.last_cursor = None
    /\ player.playback
    /\ player.seconds_end = FDiv(FFromU32(result.song.ticks_end),
                                 FFromU32(result.song.ticks_per_second))

\* a play that returns on a player that rendered two frames of another play
C6_Witness == Played /\ plays = 2 /\ frames >= 2 /\ HasValue(first_play)

\* the last call was a play that returned, with the song and the echo
\* configuration of an earlier play that returned
Replayed ==
  /\ Played
  /\ HasValue(first_play)
  /\ Value(first_play).nth < plays
  /\ Value(first_play).song = result.song
  /\ Value(first_play).env = result.env

\* the player state of the data model that play resets, the echo buffers
\* left out
ResetState(p) ==
  [channels |-> p.channels, patch_ids |-> p.patch_ids,
   seconds_elapsed |-> p.seconds_elapsed, seconds_end |-> p.seconds_end,
   cursor |-> p.cursor, last_cursor |-> p.last_cursor,
   on_voices |-> p.on_voices, echo_cursor |-> p.echo_cursor,
   playback |-> p.playback]

----------------------------------------------------------------------------
(* Properties of the decoder, under SpecLoad                               *)

\* what load throws at a byte that is no command_type
UnknownTagOutcome ==
  load(MagicBytes \o <<CHOOSE u \in UnknownTags : TRUE>>, <<0, 0, 0, 0>>).status

\* C8: load throws, and returns no song, for every buffer whose first four
\* bytes are not 'A','X','S','D'; the records behind them are not looked at.
C8_BadMagicRejected ==
  shape.magic = "bad" =>
    /\ loaded.status = "runtime_error"
    /\ loaded.origin = "magic"
    /\ "song" \notin DOMAIN loaded

\* a buffer with a bad magic in front of a damaged record
C8_Witness ==
  /\ shape.magic = "bad"
  /\ shape.body \in {"unknown_tag", "cut"}
  /\ loaded.status = "runtime_error"

\* C9: load throws a Truncated error, and returns no song, whenever a
\* payload or a waveform runs past the end of the buffer; the error differs
\* from the one for an unknown tag; load reads no byte past the buffer.
C9_TruncatedDistinct ==
  /\ loaded.status # "none" => ~loaded.past_end
  /\ shape.magic = "ok" /\ shape.body = "cut" =>
       /\ loaded.status \notin {"ok", UnknownTagOutcome}
       /\ "song" \notin DOMAIN loaded

\* C10: load throws the error of the tag lookup, and returns no song,
\* whenever the byte at a record start is no command_type.
C10_UnknownTagRejected ==
  shape.magic = "ok" /\ shape.body = "unknown_tag" =>
    /\ loaded.status = "out_of_range"
    /\ loaded.origin = "map::at"
    /\ "song" \notin DOMAIN loaded

\* an unknown tag behind records that were decoded
C10_Witness ==
  /\ shape.magic = "ok"
  /\ shape.body = "unknown_tag"
  /\ shape.at > 4
  /\ loaded.status = "out_of_range"

----------------------------------------------------------------------------
(* The decoder on encoded scores                                           *)

\* the buffer decoded last was encoded from a score, and load has returned
DecodedScore == shape.body = "encoded" /\ loaded.status # "none"

\* the records of a score of one type, in file order
RecordsOf(score, type) == SelectSeq(score, LAMBDA rec : rec.type = type)

\* the patch_t and the drum_t a record carries
PatchOf(rec) ==
  [waveform |-> rec.waveform, loop_start |-> rec.loop_start,
   loop_end |-> rec.loop_end, ratio |-> BitsToF32(rec.ratio),
   gain_L |-> BitsToF32(rec.gain_L), gain_R |-> BitsToF32(rec.gain_R)]

DrumOf(rec) ==
  [waveform |-> rec.waveform, ratio |-> BitsToF32(rec.ratio),
   gain_L |-> BitsToF32(rec.gain_L), gain_R |-> BitsToF32(rec.gain_R)]

\* the event a record other than EndOfTrack stands for: the channel events
\* with their carried tick and fields, the others at tick 0
EventOf(rec) ==
  CASE rec.type \in {"note_on", "note_off", "pitchwheel", "program_change"} -> rec
    [] rec.type \in {"version", "rate"} -> [tick |-> U32Zero] @@ rec
    [] OTHER -> [tick |-> U32Zero, type |-> rec.type]

EventsOf(score) ==
  LET recs == SelectSeq(score, LAMBDA rec : rec.type # "end_of_track")
  IN  [k \in 1..Len(recs) |-> EventOf(recs[k])]

\* the events of a sequence at one tick, EndOfTrack events left out
EventsAt(events, tick) ==
  SelectSeq(events, LAMBDA e : e.tick = tick /\ e.type # "end_of_track")

TicksOf(events) == { events[k].tick : k \in 1..Len(events) }

\* C11: a file encoded record by record decodes to a song whose patches and
\* drums are the encoded ones, whose channel events sit at their carried
\* tick with their carried fields, and whose Version, Rate, PatchData and
\* DrumData events sit at tick 0
C11_RoundTrip ==
  DecodedScore =>
    /\ loaded.status = "ok"
    /\ LET patches == RecordsOf(shape.score, "patch_data")
           drums   == RecordsOf(shape.score, "drum_data")
           song    == loaded.song
       IN  /\ DOMAIN song.patches = { patches[k].program : k \in 1..Len(patches) }
           /\ \A k \in 1..Len(patches) :
                song.patches[patches[k].program] = PatchOf(patches[k])
           /\ DOMAIN song.drums = { drums[k].drum : k \in 1..Len(drums) }
           /\ \A k \in 1..Len(drums) : song.drums[drums[k].drum] = DrumOf(drums[k])
           /\ \A tick \in TicksOf(song.commands) \cup TicksOf(EventsOf(shape.score)) :
                EventsAt(song.commands, tick) = EventsAt(EventsOf(shape.score), tick)

\* the score with ticks of four different bytes, a patch and a drum is decoded
C11_Witness ==
  /\ DecodedScore
  /\ shape.score = ScoreFields
  /\ loaded.status = "ok"
  /\ U32FromInt(16909060) \in TicksOf(loaded.song.commands)
  /\ DOMAIN loaded.song.patches = {7, 200}

\* the EndOfTrack events of a decoded song
EndEvents(song) == SelectSeq(song.commands, LAMBDA e : e.type = "end_of_track")

\* C12: a stream with an EndOfTrack record of tick T decodes to a song with
\* ticks_end = T whose EndOfTrack event is stored under key T
C12_EndOfTrackAtFinalTick ==
  DecodedScore /\ loaded.status = "ok" =>
    \A k \in 1..Len(RecordsOf(shape.score, "end_of_track")) :
      LET T == RecordsOf(shape.score, "end_of_track")[k].tick
      IN  /\ loaded.song.ticks_end = T
          /\ Len(EndEvents(loaded.song)) = 1
          /\ EndEvents(loaded.song)[1].tick = T

----------------------------------------------------------------------------
(* Songs without length                                                    *)

\* the song being played has ticks_end = 0 or ticks_per_second = 0
ZeroLength(p) ==
  p.playback /\ (p.current.ticks_end = U32Zero \/ p.current.ticks_per_second = U32Zero)

Silent(samples) == \A k \in DOMAIN samples : samples[k] = FZero

\* C13: while a song with ticks_end = 0 or ticks_per_second = 0 is played,
\* every frame is silent, seconds_elapsed stays a number and every cursor is
\* the result of a defined conversion
C13_ZeroLengthWellDefined ==
  result.op = "tick" /\ ZeroLength(player) =>
    /\ result.status = "ok"
    /\ Silent(audio)
    /\ IsFin(player.seconds_elapsed)
    /\ \A k \in DOMAIN history : history[k].defined

----------------------------------------------------------------------------
(* Pause                                                                   *)

\* what a tick of one frame does when only the echo step runs, on silence
EchoOnly(p, q, samples) ==
  \E e \in {maybe_echo_one(p, FZero, FZero)} :
    q = e.p /\ samples = FrameSamples(p.in_stereo, e.l, e.r)

\* C14: pause clears playback and nothing else; a tick while playback is
\* false dispatches no event and leaves seconds_elapsed, cursor, last_cursor,
\* the channel voices, patch_ids and on_voices as they were, and still runs
\* the echo step on each frame, so that the output is the echo tail only
C14_PausedTickOnlyEchoes ==
  [][ /\ result'.op = "pause" => player' = [player EXCEPT !.playback = FALSE]
      /\ ~player.playback /\ result'.op = "tick" /\ frames' = frames + 1 =>
           /\ result'.status = "ok"
           /\ player'.seconds_elapsed = player.seconds_elapsed
           /\ player'.cursor = player.cursor
           /\ player'.last_cursor = player.last_cursor
           /\ player'.channels = player.channels
           /\ player'.patch_ids = player.patch_ids
           /\ player'.on_voices = player.on_voices
           /\ Len(history') = Len(history) + 1
           /\ ~history'[Len(history')].played
           /\ history'[Len(history')].events = <<>>
           /\ EchoOnly(player, player', audio') ]_vars

\* a song with echo was played and heard, then paused; the frame ticked after
\* the pause carries the echo tail and the voices are as they were
C14_Witness ==
  /\ result.op = "tick"
  /\ ~player.playback
  /\ HasValue(player.env_params)
  /\ Len(history) >= 2
  /\ history[1].played
  /\ ~history[Len(history)].played
  /\ ~Silent(audio)
  /\ ActiveVoices(player) # {}

----------------------------------------------------------------------------
(* Drum misses                                                             *)

NoteOns(events) == SelectSeq(events, LAMBDA e : e.type = "note_on")

\* every NoteOn of the song is on the drum channel with a note that has no
\* entry in song.drums: no other voice is ever created
OnlyDrumMisses(song) ==
  /\ NoteOns(song.commands) # <<>>
  /\ \A k \in 1..Len(NoteOns(song.commands)) :
       /\ NoteOns(song.commands)[k].channel = DrumChannel
       /\ NoteOns(song.commands)[k].note \notin DOMAIN song.drums

\* the last frame ticked called handle_one
LastFramePlayed ==
  /\ result.op = "tick" /\ result.status = "ok"
  /\ history # <<>> /\ history[Len(history)].played

\* C15: a NoteOn on channel 9 whose note has no drum creates a voice that adds
\* nothing to the output and is inactive after the mixing pass of its frame;
\* the next frame removes it, after which the channel is empty and on_voices
\* is 0; the output is silent throughout
C15_DrumMissReaped ==
  LastFramePlayed /\ OnlyDrumMisses(player.current) =>
    LET made == Len(NoteOns(history[Len(history)].events))
        voices == Voices(player, DrumChannel)
    IN  /\ Silent(audio)
        /\ Len(voices) = made
        /\ \A j \in 1..Len(voices) : ~voices[j].active
        /\ made = 0 => player.on_voices = 0

\* the frame after the one that dispatched the missing drum: the voice is gone
C15_Witness ==
  /\ LastFramePlayed /\ OnlyDrumMisses(player.current)
  /\ Len(history) >= 2
  /\ Len(NoteOns(history[Len(history) - 1].events)) = 1
  /\ history[Len(history)].events = <<>>
  /\ Voices(player, DrumChannel) = <<>>
  /\ player.on_voices = 0

----------------------------------------------------------------------------
(* Dispatch                                                                *)

\* the commands of the song keyed by a tick, in the order of the container
KeyedBy(song, tick) == SelectSeq(song.commands, LAMBDA e : e.tick = tick)

\* frames i < j of the history belong to one pass: no frame after i up to j
\* found last_cursor unset
SamePass(i, j) == \A m \in (i + 1)..j : HasValue(history[m].last)

\* C16: a played frame dispatches only when last_cursor is unset or below the
\* cursor, and then exactly the events keyed by the cursor, so the events at
\* ticks the cursor jumped over are not dispatched; within one pass no tick
\* is dispatched twice
C16_DispatchAtCursorOnly ==
  /\ \A k \in DOMAIN history :
       history[k].played =>
         /\ history[k].fire <=>
              (~HasValue(history[k].last)
               \/ U32Lt(Value(history[k].last), history[k].cursor))
         /\ history[k].events = IF history[k].fire
                                THEN KeyedBy(player.current, history[k].cursor)
                                ELSE <<>>
  /\ \A i, j \in DOMAIN history :
       i < j /\ history[i].fire /\ history[j].fire /\ SamePass(i, j) =>
         /\ U32Lt(history[i].cursor, history[j].cursor)
         /\ \A n \in 1..Len(history[j].events) :
              ~U32Lt(history[j].events[n].tick, history[j].cursor)

\* the cursor went from 0 to 2 within one pass over a song with a NoteOn at
\* tick 1, and a later frame found the cursor where it was
C16_Witness ==
  /\ \E k \in DOMAIN history :
       /\ k + 1 \in DOMAIN history
       /\ history[k].fire /\ history[k + 1].fire /\ SamePass(k, k + 1)
       /\ history[k].cursor = U32Zero
       /\ history[k + 1].cursor = U32FromInt(2)
       /\ NoteOns(KeyedBy(player.current, U32FromInt(1))) # <<>>
       /\ NoteOns(history[k + 1].events) = <<>>
  /\ Len(Voices(player, 0)) = 1

----------------------------------------------------------------------------
(* Looping                                                                 *)

\* the song played has a length, and at most one tick per frame
Loopable(p) ==
  /\ p.current.ticks_end # U32Zero
  /\ p.current.ticks_per_second # U32Zero
  /\ ~FGt(FMul(FFromU32(p.current.ticks_per_second), p.frequency), FOne)

\* the frames of the history that begin a pass: last_cursor was unset
PassStarts == { k \in DOMAIN history : ~HasValue(history[k].last) }

\* the frames of the pass that begins at frame i and ends before frame j
\* that dispatched tick t
DispatchesOf(i, j, t) ==
  { m \in i..(j - 1) : history[m].fire /\ history[m].cursor = U32FromInt(t) }

\* C17: while playback stays true and ticks_per_second is at most the sample
\* rate, every pass begins by dispatching tick 0, and every completed pass
\* dispatches each tick below ticks_end exactly once
C17_EveryPassFromTickZero ==
  Loopable(player) /\ (\A k \in DOMAIN history : history[k].played) =>
    /\ \A i \in PassStarts : history[i].fire /\ history[i].cursor = U32Zero
    /\ \A i, j \in PassStarts :
         i < j /\ SamePass(i, j - 1) =>
           \A t \in 0..(U32ToInt(player.current.ticks_end) - 1) :
             Cardinality(DispatchesOf(i, j, t)) = 1

----------------------------------------------------------------------------
(* Order of the events of one tick                                         *)

\* the song being played was decoded from the score kept with the buffer
PlayingScore == shape.body = "encoded" /\ plays > 0 /\ player.playback

\* event j of a frame is a NoteOn on a melodic channel, event i before it is
\* the last PitchWheel of that channel in the frame
BendThenNote(events, i, j) ==
  /\ i < j
  /\ events[i].type = "pitchwheel" /\ events[j].type = "note_on"
  /\ events[i].channel = events[j].channel
  /\ events[j].channel # DrumChannel
  /\ \A m \in (i + 1)..Len(events) :
       ~(events[m].type = "pitchwheel" /\ events[m].channel = events[i].channel)

\* event j of a frame is a NoteOn on a melodic channel, event i before it a
\* ProgramChange of that channel
ProgramThenNote(events, i, j) ==
  /\ i < j
  /\ events[i].type = "program_change" /\ events[j].type = "note_on"
  /\ events[i].channel = events[j].channel
  /\ events[j].channel # DrumChannel

\* C18: the events of one tick are dispatched in the order of their records
\* in the file; a PitchWheel or ProgramChange record before a NoteOn record
\* of the same tick and channel is in effect for the voice of that NoteOn
C18_FileOrderWithinTick ==
  PlayingScore =>
    /\ \A k \in DOMAIN history :
         history[k].fire =>
           EventsAt(history[k].events, history[k].cursor)
             = EventsAt(EventsOf(shape.score), history[k].cursor)
    /\ LastFramePlayed /\ history[Len(history)].on_voices < player.max_voices =>
         LET events == history[Len(history)].events
         IN  \A i, j \in DOMAIN events :
               /\ BendThenNote(events, i, j) =>
                    \E n \in DOMAIN Voices(player, events[j].channel) :
                      LET v == Voices(player, events[j].channel)[n]
                      IN  /\ v.note = events[j].note
                          /\ v.phase_add_by =
                               MelodicStep(v.note,
                                           FDiv(FFromS32(events[i].bend), FInt(4096)),
                                           player.frequency)
               /\ ProgramThenNote(events, i, j) =>
                    /\ HasValue(player.patch_ids[events[j].channel])
                    /\ \E n \in DOMAIN Voices(player, events[j].channel) :
                         LET v == Voices(player, events[j].channel)[n]
                         IN  v.note = events[j].note /\ v.phase = v.phase_add_by

\* tick 0 of the score with ProgramChange, PitchWheel and two NoteOns was
\* dispatched, four events in file order, and both voices carry the bend
C18_Witness ==
  /\ PlayingScore /\ LastFramePlayed
  /\ shape.score = ScoreOrder
  /\ Len(history) = 1
  /\ Len(NoteOns(history[1].events)) = 2
  /\ \E i, j \in DOMAIN history[1].events : BendThenNote(history[1].events, i, j)
  /\ Len(Voices(player, 0)) = 2
  /\ Voices(player, 0)[1].phase_add_by # MelodicStep(69, FZero, player.frequency)

----------------------------------------------------------------------------
(* NoteOff on its own: handle_one's note_off case applied to players with  *)
(* given voices                                                            *)

\* voice j of a channel, created by NoteOn(note 60 + j), with the flags given
VoiceOf(j, flags) ==
  [NewVoice(FOne, FOne, 60 + j) EXCEPT !.key = flags[1], !.active = flags[2]]

\* the voice lists of up to MaxVoices voices, every combination of key and
\* active
VoiceLists ==
  UNION { { [j \in 1..n |-> VoiceOf(j, f[j])] :
              f \in [1..n -> BOOLEAN \X BOOLEAN] } : n \in 0..MaxVoices }

\* the drum voices at the time: none, one held, one released and one held
DrumLists ==
  { <<>>, <<VoiceOf(1, <<TRUE, TRUE>>)>>,
    <<VoiceOf(1, <<FALSE, TRUE>>), VoiceOf(2, <<TRUE, FALSE>>)>> }

\* a player in the middle of a song, with the given voices on channels 0 and
\* 9 and one held voice on channel 1
PlayerWith(voices, drums) ==
  LET p == play(NewPlayer(MaxVoices, 100, TRUE, Uninits[1]),
                [EmptySong EXCEPT !.version = CURRENT_VERSION], None).p
  IN  [p EXCEPT !.channels[0].voices = voices,
                !.channels[1].voices = <<VoiceOf(1, <<TRUE, TRUE>>)>>,
                !.channels[DrumChannel].voices = drums,
                !.on_voices = Len(voices) + Len(drums) + 1]

InitVoices ==
  /\ data = <<>>
  /\ shape = Whole
  /\ loaded = [status |-> "none"]
  /\ \E voices \in VoiceLists, drums \in DrumLists :
       player = PlayerWith(voices, drums)
  /\ audio = <<>>
  /\ result = [op |-> "play", status |-> "ok"]
  /\ frames = 0
  /\ plays = 1
  /\ first_play = None
  /\ history = <<>>

\* the channels NoteOff events name
NoteOffChannels == {0, 1, 5, DrumChannel}

\* the note_off case of handle_one on one event; before is the player as
\* the event found it
ApplyNoteOff ==
  /\ Running
  /\ \E c \in NoteOffChannels :
       \E d \in {DispatchOne(player, NoteOff(0, c))} :
         /\ player' = d.p
         /\ result' = [op |-> "note_off", status |-> d.status, channel |-> c,
                       before |-> player]
  /\ UNCHANGED <<data, shape, loaded, audio, frames, plays, first_play, history>>

SpecNoteOff == InitVoices /\ [][ApplyNoteOff]_vars

\* the voices that differ between two players, as <<channel, position>>
ChangedVoices(p, q) ==
  { x \in HeldVoices(p) \cup HeldVoices(q) :
      \/ x \notin HeldVoices(p) \/ x \notin HeldVoices(q)
      \/ Voices(p, x[1])[x[2]] # Voices(q, x[1])[x[2]] }

\* the voices of channel c with key set, by position
KeyedVoices(p, c) == { j \in DOMAIN Voices(p, c) : Voices(p, c)[j].key }

\* C19: NoteOff(channel c) clears key on exactly one voice, the earliest
\* created voice of channel c whose key is set, and changes nothing else;
\* when channel c has no voice with key set nothing changes
C19_NoteOffReleasesEarliest ==
  result.op = "note_off" =>
    LET before == result.before
        c == result.channel
        held == KeyedVoices(before, c)
    IN  /\ result.status = "ok"
        /\ [player EXCEPT !.channels = before.channels] = before
        /\ \A i \in ChannelIds \ {c} : player.channels[i] = before.channels[i]
        /\ held = {} => player = before
        /\ held # {} =>
             \E k \in held :
               /\ \A j \in held : k <= j
               /\ ChangedVoices(before, player) = {<<c, k>>}
               /\ Voices(player, c)[k] = [Voices(before, c)[k] EXCEPT !.key = FALSE]

\* three voices on channel 0, the first released before, the other two held:
\* the NoteOff released the second and left the third held
C19_Witness ==
  /\ result.op = "note_off" /\ result.channel = 0
  /\ Len(Voices(result.before, 0)) = 3
  /\ KeyedVoices(result.before, 0) = {2, 3}
  /\ KeyedVoices(player, 0) = {3}

----------------------------------------------------------------------------
(* Looping patches                                                         *)

\* loop_start < loop_end <= waveform.size() on a patch that loops
WellLooped(patch) ==
  /\ patch.loop_start # NoLoop
  /\ U32Lt(patch.loop_start, patch.loop_end)
  /\ U32Le(patch.loop_end, U32FromInt(Len(patch.waveform)))

\* the melodic channels bound to a patch of the song that loops that way
LoopingChannels(p) ==
  { i \in ChannelIds :
      /\ i # DrumChannel
      /\ HasValue(p.patch_ids[i])
      /\ Value(p.patch_ids[i]) \in DOMAIN p.current.patches
      /\ WellLooped(p.current.patches[Value(p.patch_ids[i])]) }

----------------------------------------------------------------------------
(* The mixing pass on its own: accumulate_into applied, frame after frame, *)
(* to the voices of one channel                                            *)

\* the patches of the channel: looped over the whole waveform, looped
\* inside it, not looped, looped beyond its end, with a NaN gain, without
\* samples, with a NaN ratio
MixPatches ==
  { PatchOf(PatchTwo), PatchOf(PatchInner),
    [PatchOf(PatchTwo) EXCEPT !.loop_start = NoLoop, !.loop_end = U32Zero],
    [PatchOf(PatchInner) EXCEPT !.loop_start = U32Zero, !.loop_end = U32FromInt(9)],
    [PatchOf(PatchTwo) EXCEPT !.loop_start = NoLoop, !.gain_L = NaN],
    [PatchOf(PatchTwo) EXCEPT !.waveform = <<>>, !.loop_start = NoLoop],
    [PatchOf(PatchInner) EXCEPT !.ratio = NaN] }

\* the drum kits: note 42 mapped, with gains 1 or an infinite gain_R
MixKits ==
  { 42 :> DrumOf(DrumData(42, <<0, 255>>, BitsRatio, BitsOne, BitsOne)),
    42 :> [DrumOf(DrumData(42, <<0, 255>>, BitsRatio, BitsOne, BitsOne))
             EXCEPT !.gain_R = PInf] }

\* the voice NoteOn(note) creates on a melodic channel without bend, and on
\* the drum channel, at 100 Hz
MelodicVoice(note) ==
  NewVoice(FOne, MelodicStep(note, FZero, FDiv(FOne, FInt(100))), note)

DrumVoice(note) == NewVoice(FOne, DrumStep(FDiv(FOne, FInt(100))), note)

MixVoices ==
  { <<MelodicVoice(69)>>, <<MelodicVoice(81)>>,
    <<MelodicVoice(69), MelodicVoice(81)>> }

MixDrumVoices == { <<DrumVoice(42)>>, <<DrumVoice(43)>>, <<DrumVoice(42), DrumVoice(43)>> }

\* a channel before its first mixing pass
Channel(kit, patch, voices) ==
  [op |-> "voices", status |-> "ok", kit |-> kit, patch |-> patch,
   before |-> voices, voices |-> voices, l |-> FZero, r |-> FZero, reads |-> <<>>]

InitMix ==
  /\ data = <<>>
  /\ shape = Whole
  /\ loaded = [status |-> "none"]
  /\ player = NewPlayer(MaxVoices, 100, TRUE, Uninits[1])
  /\ audio = <<>>
  /\ \/ \E patch \in MixPatches, voices \in MixVoices :
          result = Channel(FALSE, patch, voices)
     \/ \E kit \in MixKits, voices \in MixDrumVoices :
          result = Channel(TRUE, kit, voices)
  /\ frames = 0
  /\ plays = 1
  /\ first_play = None
  /\ history = <<>>

\* one pass of handle_one over the channel: the inactive voices are erased,
\* accumulate_into adds to l = r = 0
Accumulate ==
  /\ result.status = "ok"
  /\ frames < MaxMix
  /\ \E ub \in UBCasts :
       \E kept \in {EraseInactive(result.voices)} :
         \E a \in {IF result.kit
                   THEN DrumAccumulate(kept, 1, result.patch, FZero, FZero, ub)
                   ELSE VoiceAccumulate(kept, 1, result.patch, FZero, FZero, ub)} :
           result' = [op |-> "mix", status |-> a.status, kit |-> result.kit,
                      patch |-> result.patch, before |-> kept,
                      voices |-> a.voices, l |-> a.l, r |-> a.r, reads |-> a.reads]
  /\ frames' = frames + 1
  /\ UNCHANGED <<data, shape, loaded, player, audio, plays, first_play, history>>

\* a NoteOff between two passes: the first voice with key set is released
Release ==
  /\ result.status = "ok"
  /\ first_on(result.voices) # 0
  /\ result' = [result EXCEPT !.op = "release",
                              !.voices[first_on(result.voices)].key = FALSE]
  /\ UNCHANGED <<data, shape, loaded, player, audio, frames, plays, first_play,
                 history>>

NextMix == Accumulate \/ Release

SpecMix == InitMix /\ [][NextMix]_vars

\* the gains the pass multiplied with are numbers
FiniteGains ==
  IF result.kit
  THEN \A note \in DOMAIN result.patch :
         IsFin(result.patch[note].gain_L) /\ IsFin(result.patch[note].gain_R)
  ELSE IsFin(result.patch.gain_L) /\ IsFin(result.patch.gain_R)

\* every voice of the pass had its index at or past the end of its waveform
AllPastEnd == \A k \in DOMAIN result.reads : result.reads[k].dead

MixedSome == result.op = "mix" /\ result.reads # <<>>

----------------------------------------------------------------------------
(* The loop bounds of decoded patches                                      *)

\* the Patch invariant: no loop, or loop_start < loop_end <= waveform.size()
PatchInvariant(patch) == patch.loop_start = NoLoop \/ WellLooped(patch)

\* the melodic channels that hold a voice with key set and are bound to a
\* patch whose loop has length 0
EmptyLoopChannels(p) ==
  { i \in ChannelIds :
      /\ i # DrumChannel
      /\ HasValue(p.patch_ids[i])
      /\ Value(p.patch_ids[i]) \in DOMAIN p.current.patches
      /\ LET patch == p.current.patches[Value(p.patch_ids[i])]
         IN  patch.loop_start # NoLoop /\ patch.loop_end = patch.loop_start
      /\ first_on(Voices(p, i)) # 0 }

\* the frame ticked last took a remainder by loop_end - loop_start = 0
FoldedByZero ==
  /\ result.op = "tick"
  /\ result.status = "undefined"
  /\ EmptyLoopChannels(player) # {}

\* C22: every patch of a song load returns has no loop or has
\* loop_start < loop_end <= waveform.size(), and no frame folds an index by a
\* remainder by loop_end - loop_start = 0
C22_PatchInvariant ==
  /\ DecodedScore /\ loaded.status = "ok" =>
       \A prog \in DOMAIN loaded.song.patches :
         PatchInvariant(loaded.song.patches[prog])
  /\ ~FoldedByZero

----------------------------------------------------------------------------
(* A rejected play                                                         *)

\* the play called last threw the version mismatch
Rejected == result.op = "play" /\ result.status = "version_mismatch"

\* the fields play assigns before its version test
SameSong(p, q) ==
  /\ p.current = q.current
  /\ p.env_params = q.env_params
  /\ p.channels = q.channels
  /\ p.patch_ids = q.patch_ids
  /\ p.seconds_elapsed = q.seconds_elapsed
  /\ p.seconds_end = q.seconds_end
  /\ p.playback = q.playback

\* a frame ticked since the last play dispatched events while the current
\* song is one the version test refuses
RejectedSongRendered ==
  /\ result.op = "tick"
  /\ ~VersionAccepted(player.current)
  /\ \E k \in DOMAIN history : history[k].played /\ history[k].events # <<>>

\* C23: a play rejected for its version leaves current, env_params, the
\* channel voices, patch_ids, seconds_elapsed, seconds_end and playback as
\* they were, and no later frame dispatches events of the rejected song
C23_RejectedPlayLeavesPlayer ==
  /\ Rejected => SameSong(player, result.before)
  /\ ~RejectedSongRendered

----------------------------------------------------------------------------
(* The channel byte of events                                              *)

ChannelTypes == {"note_on", "note_off", "pitchwheel", "program_change"}

\* the events of a sequence that address a channel
Addressing(events) == SelectSeq(events, LAMBDA e : e.type \in ChannelTypes)

\* every event of the sequence that addresses a channel addresses one of the
\* 16 channels
InChannels(events) ==
  \A k \in DOMAIN Addressing(events) : Addressing(events)[k].channel \in ChannelIds

\* the frame ticked last indexed channels or patch_ids past their 16 slots
IndexedPastChannels ==
  /\ result.op = "tick"
  /\ result.status = "undefined"
  /\ history # <<>>
  /\ ~InChannels(history[Len(history)].events)

\* C24: the events of a song load returns that address a channel address one
\* of 0..15, and no frame indexes channels or patch_ids out of range
C24_ChannelsInRange ==
  /\ DecodedScore /\ loaded.status = "ok" => InChannels(loaded.song.commands)
  /\ ~IndexedPastChannels

----------------------------------------------------------------------------
(* The echo cursor: a silent song played with an echo configuration and    *)
(* ticked frame by frame                                                   *)

\* a song of three ticks without events
ScoreSilent == <<Version(3), Rate(100), EndOfTrack(3)>>

\* the echo configurations: 16-bit increments, cursor_max in 1..65535
EchoConfigs ==
  { [EchoA EXCEPT !.cursor_increment = inc, !.cursor_max = max] :
      inc \in {0, 1, 2, 40000, 65534, 65535}, max \in {1, 2, 3, 40000, 65535} }

InitEcho ==
  /\ data = EncodeAll(ScoreSilent)
  /\ shape = Encoded(ScoreSilent)
  /\ loaded = [status |-> "none"]
  /\ \E env \in EchoConfigs, junk \in Junk :
       \E song \in {load(EncodeAll(ScoreSilent), junk).song} :
         /\ player = play(NewPlayer(MaxVoices, 100, TRUE, Uninits[1]),
                          song, Some(env)).p
         /\ result = [op |-> "play", status |-> "ok", song |-> song,
                      env |-> Some(env),
                      before |-> NewPlayer(MaxVoices, 100, TRUE, Uninits[1])]
  /\ audio = <<>>
  /\ frames = 0
  /\ plays = 1
  /\ first_play = None
  /\ history = <<>>

\* player.tick(audio) on a buffer of one frame; the echo cursor the frame
\* found is kept
EchoFrame ==
  /\ Running
  /\ frames < MaxEcho
  /\ \E ub \in UBCasts :
       \E f \in {OneFrame(player, ub)} :
         /\ player' = f.p
         /\ audio' = f.out
         /\ result' = [op |-> "echo", status |-> f.status,
                       before |-> player.echo_cursor]
  /\ frames' = frames + 1
  /\ UNCHANGED <<data, shape, loaded, plays, first_play, history>>

NextEcho == EchoFrame \/ Pause

SpecEcho == InitEcho /\ [][NextEcho]_vars

\* the frame ticked last left the echo cursor below cursor_max and inside
\* the echo buffers
EchoCursorInside ==
  result.op = "echo" =>
    /\ result.status = "ok"
    /\ player.echo_cursor < Value(player.env_params).cursor_max
    /\ player.echo_cursor < EchoLength

\* C25: with an echo configuration each frame moves the echo cursor to
\* (echo_cursor + cursor_increment) mod cursor_max, so that it is below
\* cursor_max and inside the 65535 elements of the echo buffers
C25_EchoCursorAdvance ==
  /\ result.op = "echo" =>
       player.echo_cursor =
         (result.before + Value(player.env_params).cursor_increment)
           % Value(player.env_params).cursor_max
  /\ EchoCursorInside

----------------------------------------------------------------------------
(* The lifecycle of voices                                                 *)

\* the voices a channel holds after a played frame: the voices that were
\* active before it, in their order, then at most the voices the NoteOn
\* events of the frame created
Survivors(before, after, created) ==
  LET kept == SelectSeq(before, LAMBDA v : v.active)
  IN  /\ Len(kept) <= Len(after)
      /\ Len(after) <= Len(kept) + created
      /\ \A j \in 1..Len(kept) :
           after[j].note = kept[j].note /\ after[j].velocity = kept[j].velocity

\* the NoteOn events of a frame on channel i
NoteOnsTo(i, events) ==
  Len(SelectSeq(events, LAMBDA e : e.type = "note_on" /\ e.channel = i))

\* C26: a played frame leaves on every channel, bound to a program or not,
\* none of the voices that were inactive before it and all of the voices
\* that were active; a frame of a paused player and pause remove no voice
C26_VoiceLifecycle ==
  [][/\ result'.op = "tick" /\ result'.status = "ok" /\ player.playback =>
          \A i \in ChannelIds :
            Survivors(Voices(player, i), Voices(player', i),
                      NoteOnsTo(i, history'[Len(history')].events))
     /\ /\ result'.status = "ok"
        /\ \/ result'.op = "pause"
           \/ result'.op = "tick" /\ ~player.playback
        => player'.channels = player.channels]_vars

\* the voice of the NoteOn of the song looped inside its waveform was
\* released, ran off the end of the waveform, and the frame ticked last
\* removed it: channel 0 is empty
C26_Witness ==
  /\ LastFramePlayed
  /\ shape.body = "encoded" /\ shape.score = ScoreInner
  /\ Voices(player, 0) = <<>>
  /\ HasValue(player.patch_ids[0])
  /\ \E k \in DOMAIN history :
       /\ history[k].on_voices < player.max_voices
       /\ NoteOnsTo(0, history[k].events) > 0

----------------------------------------------------------------------------
(* Songs without a Version record                                          *)

\* load found no Version record: it emplaces one command per record
NoVersion(song) == \A k \in DOMAIN song.commands : song.commands[k].type # "version"

\* C27: a song decoded from a stream without Version record has a version
\* other than 3, and play rejects it with the version mismatch
C27_NoVersionRejected ==
  /\ loaded.status = "ok" /\ NoVersion(loaded.song) =>
       loaded.song.version # CURRENT_VERSION
  /\ result.op = "play" /\ NoVersion(result.song) =>
       result.status = "version_mismatch"

\* a file of a Rate, a PatchData and an EndOfTrack record was loaded, and
\* play threw the version mismatch
C27_Witness ==
  /\ Rejected
  /\ NoVersion(result.song)
  /\ result.song.commands # <<>>
  /\ result.song.version = 0

====
